---- MODULE Spec2Model ----
(***************************************************************************)
(* svn2git: the sync orchestrator (src/src/sync.rs) replaying an ordered   *)
(* SVN log as Git commits, with its SVN, Git, interaction and history      *)
(* collaborators reduced to the calls the orchestrator makes on them       *)
(* (Spec); the history manager (src/src/config/manager.rs) under any       *)
(* sequence of its operations (HistorySpec); and one invocation of the     *)
(* sync command, from main through configuration resolution to the run     *)
(* (MainSpec).  Further: removals from a stored history (RemoveSpec), the  *)
(* history file as DiskStorage writes and reads it (DiskSpec), the         *)
(* in-memory Git backend of src/src/ops/mock_git.rs (GitSpec), and that    *)
(* backend next to the process-backed one of src/src/ops/real_git.rs       *)
(* (PairSpec), the conflict scan of sync.rs over any status text           *)
(* (ScanSpec), and the in-memory backend shared by two threads             *)
(* (ThreadSpec).                                                           *)
(*                                                                         *)
(* Text is a sequence of characters, each character a one-element string.  *)
(* The literal fragments of a format string are kept as one element each.  *)
(***************************************************************************)
EXTENDS Integers, Sequences, FiniteSets, TLC

\* Longest log get_logs returns; limits range over 0..MaxLogs.
MaxLogs == 3

\* Latest reading of the clock.
MaxTime == 2

(***************************************************************************)
(* Values                                                                  *)
(***************************************************************************)

\* Option<usize>
None == [some |-> FALSE]

Some(n) == [some |-> TRUE, val |-> n]

\* SyncError variants used by the orchestrator and its collaborators.
App(msg) == [kind |-> "App", msg |-> msg]

Io(msg) == [kind |-> "Io", msg |-> msg]

\* SyncError::Inquire: a prompt that could not be put or read.
Inquire(msg) == [kind |-> "Inquire", msg |-> msg]

\* #[error("...")] Display of SyncError.
Display(e) ==
    IF e.kind = "App" THEN <<"Application error: ">> \o e.msg
    ELSE IF e.kind = "Inquire" THEN <<"Inquire error: ">> \o e.msg
    ELSE <<"IO error: ">> \o e.msg

\* Result<()> of a run; NoResult while the run has not returned.
NoResult == [tag |-> "None"]

Ok == [tag |-> "Ok"]

Err(e) == [tag |-> "Err", err |-> e]

\* A panic unwinding out of run_with_options (no Result is returned).
Panicked == [tag |-> "Panic"]

Min(a, b) == IF a < b THEN a ELSE b

\* Decimal rendering of a usize by format!("{}").
RECURSIVE Digits(_)
Digits(n) ==
    LET d == <<"0", "1", "2", "3", "4", "5", "6", "7", "8", "9">>[(n % 10) + 1]
    IN IF n < 10 THEN <<d>> ELSE Digits(n \div 10) \o <<d>>

\* SvnLog { version, message }
SvnLog(version, message) == [version |-> version, message |-> message]

\* SyncRunOptions::default()
DefaultOptions == [dry_run |-> FALSE, limit |-> None]

(***************************************************************************)
(* Pure functions of sync.rs                                               *)
(***************************************************************************)

\* limit_logs with the cap one too high: take(n + 1).
limit_logs_TakesOneMore(logs, limit) ==
    IF limit.some THEN SubSeq(logs, 1, Min(limit.val + 1, Len(logs))) ELSE logs

\* logs.into_iter().take(n).collect() / logs
limit_logs(logs, limit) ==
    IF limit.some THEN SubSeq(logs, 1, Min(limit.val, Len(logs))) ELSE logs

\* format!("SVN: {}", &log.message)
CommitMessage(log) == <<"S", "V", "N", ":", " ">> \o log.message

\* StepError with the 0-based enumerate() index as the step.
StepErrorZeroBased(idx, log, e) ==
    App(<<"F1:sync of log no. ">> \o Digits(idx) \o <<"F2: failed (SVN r">>
        \o log.version \o <<"F3:): ">> \o Display(e))

\* The map_err closure of the loop: the 1-based step, the revision and the
\* cause, between the three literal fragments of the format string (F1: up to
\* the step, F2: up to the revision, F3: up to the cause).
StepError(idx, log, e) ==
    App(<<"F1:sync of log no. ">> \o Digits(idx + 1) \o <<"F2: failed (SVN r">>
        \o log.version \o <<"F3:): ">> \o Display(e))

\* The error ensure_git_conflict_free returns on a conflict.
ConflictError == App(<<"Git conflict state detected (UU/AA/DU), sync stopped">>)

\* Characters that take three bytes in UTF-8; every other character takes one.
WideChars == {"CJK"}

ByteLen(c) == IF c \in WideChars THEN 3 ELSE 1

\* str::len(): the length in bytes.
RECURSIVE StrLen(_)
StrLen(s) == IF s = <<>> THEN 0 ELSE ByteLen(Head(s)) + StrLen(Tail(s))

\* str::is_char_boundary(n) for 0 <= n <= len.
IsCharBoundary(s, n) == \E k \in 0..Len(s) : StrLen(SubSeq(s, 1, k)) = n

\* &s[..n] where n is a char boundary: the characters of the first n bytes.
BytePrefix(s, n) ==
    SubSeq(s, 1, CHOOSE k \in 0..Len(s) : StrLen(SubSeq(s, 1, k)) = n)

StripCr(line) ==
    IF line # <<>> /\ line[Len(line)] = "\r"
    THEN SubSeq(line, 1, Len(line) - 1) ELSE line

\* str::lines(): split after each "\n"; a piece ended by "\n" loses it and one
\* "\r" before it; the final piece is a line only when it is not empty.
RECURSIVE SplitLines(_, _)
SplitLines(s, cur) ==
    IF s = <<>> THEN (IF cur = <<>> THEN <<>> ELSE <<cur>>)
    ELSE IF Head(s) = "\n" THEN <<StripCr(cur)>> \o SplitLines(Tail(s), <<>>)
    ELSE SplitLines(Tail(s), Append(cur, Head(s)))

lines(s) == SplitLines(s, <<>>)

\* The matches! arm with one code left out.
ConflictCodesIncomplete ==
    { <<"D", "D">>, <<"A", "U">>, <<"U", "D">>,
      <<"D", "U">>, <<"A", "A">>, <<"U", "U">> }

\* The codes of the matches! arm.
ConflictCodes ==
    { <<"D", "D">>, <<"A", "U">>, <<"U", "D">>, <<"U", "A">>,
      <<"D", "U">>, <<"A", "A">>, <<"U", "U">> }

\* The closure given to any(): "true", "false", or "panic" when byte 2 is
\* inside a character (slicing a str off a char boundary panics).
LineHasConflict(line) ==
    IF StrLen(line) < 2 THEN "false"
    ELSE IF ~IsCharBoundary(line, 2) THEN "panic"
    ELSE IF BytePrefix(line, 2) \in ConflictCodes THEN "true" ELSE "false"

\* Iterator::any over the lines, in order, stopping at the first true.
RECURSIVE AnyLine(_)
AnyLine(ls) ==
    IF ls = <<>> THEN "false"
    ELSE LET r == LineHasConflict(Head(ls))
         IN IF r = "false" THEN AnyLine(Tail(ls)) ELSE r

has_conflict_entries(status) == AnyLine(lines(status))

(***************************************************************************)
(* State                                                                   *)
(***************************************************************************)

VARIABLES
    pc,              \* where run_with_options stands: "idle" before the call,
                     \* "confirm", "update_to_rev", "status", "add_all",
                     \* "commit", "save" before that call, "done" once returned
    options,         \* the SyncRunOptions of the run
    fetched,         \* what get_logs returned
    svn_logs,        \* the local svn_logs after limit_logs
    idx,             \* the loop's enumerate() index, 0-based
    result,          \* what the run returned
    calls,           \* every call made on a collaborator, in order
    status_output,   \* the text the last status call returned
    commit_messages, \* the messages of the commits the Git side recorded
    printed,         \* the preview lines of a dry run
    records,         \* HistoryManager.records
    stored,          \* what the storage port holds
    cli,             \* the parsed command line of the invocation
    config,          \* the SyncConfig of the tool
    last_op,         \* the last operation on the history manager: what it
                     \* returned or, for an add, the records it found
    file,            \* the file of a DiskStorage: absent, or its content
    repos,           \* MockGitOperations.repos: path -> MockGitRepo
    tree,            \* the directories the git program works in: path ->
                     \* repository state
    git_op,          \* the last call on a Git backend and what it returned
    threads          \* the threads that share one MockGitOperations: for
                     \* each, the call it is in, its clone of the repository
                     \* and what its calls returned so far

vars ==
    << pc, options, fetched, svn_logs, idx, result, calls, status_output,
       commit_messages, printed, records, stored, cli, config, last_op,
       file, repos, tree, git_op, threads >>

\* The storage file and the Git backends, which a run over doubles, a
\* history manager over a storage port and main's resolution leave alone.
backends == << file, repos, tree, git_op, threads >>

\* What a step of a run leaves alone.
mainvars == << cli, config, last_op, backends >>

\* One entry of the call log of the doubles (mockall expectations,
\* TestGitState counters): the operation, its argument, and whether it
\* succeeded (for confirm_sync: what it answered).
Call(op, arg, ok) == [op |-> op, arg |-> arg, ok |-> ok]

\* A call that returned Err(e).
FailedCall(op, arg, e) == [op |-> op, arg |-> arg, ok |-> FALSE, err |-> e]

CallsOf(op) == SelectSeq(calls, LAMBDA c : c.op = op)

\* TestGitState.add_all_calls
add_all_calls == Len(CallsOf("add_all"))

\* TestGitState.status_calls
status_calls == Len(CallsOf("status"))

\* The revisions update_to_rev was called with, in call order.
update_calls == [i \in 1..Len(CallsOf("update_to_rev")) |-> CallsOf("update_to_rev")[i].arg]

\* The number of storage.save calls the run made (expect_save().times(n)).
save_calls == Len(CallsOf("save"))

(***************************************************************************)
(* Inputs                                                                  *)
(***************************************************************************)

\* The first revision number a fetched log can hold.
FirstRev == 8

Revisions == FirstRev..(FirstRev + MaxLogs)

Messages == { <<>>, <<"f", "i", "x">> }

\* Logs of n entries with revisions ascending from lo, as svn log -r BASE:HEAD
\* lists them; each message may be empty.
RECURSIVE LogsFrom(_, _)
LogsFrom(lo, n) ==
    IF n = 0 THEN { <<>> }
    ELSE UNION { { <<SvnLog(Digits(r), m)>> \o rest :
                     m \in Messages, rest \in LogsFrom(r + 1, n - 1) } :
                 r \in { x \in Revisions : x >= lo } }

Logs == UNION { LogsFrom(FirstRev, n) : n \in 0..MaxLogs }

Options ==
    [ dry_run : BOOLEAN, limit : { None } \cup { Some(n) : n \in 0..MaxLogs } ]

\* Errors a collaborator's operation can return: a failed command or a
\* command that could not be started.
Failures(op) == { App(<<op, " failed">>), Io(<<"os error">>) }

\* The errors a prompt ends with: the operator interrupted it, or the
\* process has no terminal.
InquireErrors == { Inquire(<<"operation canceled">>), Inquire(<<"not a tty">>) }

\* The prompt was answered with v.
Answered(v) == [tag |-> "Ok", val |-> v]

\* What the prompt of the confirmation gives.
ConfirmPrompts == { Answered(v) : v \in BOOLEAN } \cup { Err(e) : e \in InquireErrors }

\* Status codes git status --porcelain gives files that are in conflict.
UnmergedCodes ==
    { <<"D", "D">>, <<"A", "U">>, <<"U", "D">>, <<"U", "A">>,
      <<"D", "U">>, <<"A", "A">>, <<"U", "U">> }

\* Status texts without a file in conflict: nothing pending, porcelain lines
\* with and without the final newline, and the in-memory backend's text.
CleanStatusTexts ==
    { <<>>,
      <<"A", "D", " ", "f", "\n", " ", "D", " ", "g", "\n">>,
      <<"?", "?", " ", "f", "\n", "M", " ", "g">> }

\* Status texts with one file in conflict, listed first or after another file.
ConflictStatusTexts ==
    { c \o <<" ", "f", "\n">> : c \in UnmergedCodes }
    \cup { <<"?", "?", " ", "g", "\r", "\n">> \o c \o <<" ", "f">> : c \in UnmergedCodes }

StatusTexts == CleanStatusTexts \cup ConflictStatusTexts

\* HistoryRecord { id, svn_path, git_path, last_used }
HistoryRecord(id, svn_path, git_path, last_used) ==
    [id |-> id, svn_path |-> svn_path, git_path |-> git_path, last_used |-> last_used]

\* SyncConfig { svn_dir, git_dir }
SyncConfig(svn_dir, git_dir) == [svn_dir |-> svn_dir, git_dir |-> git_dir]

\* The configuration of a tool built without a command line (create_config
\* of the tests).
create_config == SyncConfig(<<"svn_dir">>, <<"git_dir">>)

\* The record lists a history manager holds when a run starts.
InitRecords ==
    { <<>>, <<HistoryRecord(1, create_config.svn_dir, create_config.git_dir, 1)>> }

\* No command line: the tool was built by its constructor.
NoCli == [cmd |-> "none"]

\* Nothing was done on the history manager yet.
NoOp == [op |-> "none"]

\* DiskStorage: no file at the path.
NoFile == [exists |-> FALSE]

\* HashMap::new(): no path is known.
NoRepos == [ p \in {} |-> NoOp ]

\* No thread holds the Git backend.
NoThreads == << >>

\* No storage file, no repository, nothing called on a Git backend.
BackendsIdle ==
    /\ file = NoFile
    /\ repos = NoRepos
    /\ tree = NoRepos
    /\ git_op = NoOp
    /\ threads = NoThreads

\* The options of a run: those main builds from the command line
\* (SyncRunOptions { dry_run, limit }), or any when the tool is run without
\* one.
RunOptions ==
    IF cli = NoCli THEN Options
    ELSE { [dry_run |-> cli.dry_run, limit |-> cli.limit] }

\* The logs get_logs returns to a run. The run of an invocation is followed
\* over logs of at most one entry: longer logs are followed from a tool
\* built without a command line.
RunLogs ==
    IF cli = NoCli THEN Logs
    ELSE { logs \in Logs : Len(logs) <= 1 }

(***************************************************************************)
(* Init: a SyncTool just constructed; the history was loaded from storage  *)
(***************************************************************************)

Init ==
    /\ pc = "idle"
    /\ options = DefaultOptions
    /\ fetched = <<>>
    /\ svn_logs = <<>>
    /\ idx = 0
    /\ result = NoResult
    /\ calls = <<>>
    /\ status_output = <<>>
    /\ commit_messages = <<>>
    /\ printed = <<>>
    /\ records \in InitRecords
    /\ stored = records
    /\ cli = NoCli
    /\ config = create_config
    /\ last_op = NoOp
    /\ BackendsIdle

(***************************************************************************)
(* run_with_options, up to the loop                                        *)
(***************************************************************************)

\* confirm_sync answering yes to a prompt that failed.
confirm_sync_ProceedsOnError(prompt) ==
    IF prompt.tag = "Ok" THEN prompt.val ELSE TRUE

\* DefaultUserInteractor::confirm_sync: the answer of the prompt, and false
\* when the prompt failed.
confirm_sync(prompt) ==
    IF prompt.tag = "Ok" THEN prompt.val ELSE FALSE

\* The entry of the call log for a confirmation: what was asked about, what
\* the prompt gave and what confirm_sync answered.
\* A confirmation that is shown the first pending entry only.
ConfirmCall_FirstEntryOnly(logs, prompt) ==
    [op |-> "confirm_sync", arg |-> SubSeq(logs, 1, 1), ok |-> confirm_sync(prompt),
     prompt |-> prompt]

ConfirmCall(logs, prompt) ==
    [op |-> "confirm_sync", arg |-> logs, ok |-> confirm_sync(prompt),
     prompt |-> prompt]

\* The run returns r.
Return(r) ==
    /\ result' = r
    /\ pc' = "done"

\* println!("[preview] r{} -> SVN: {}", log.version, log.message)
PreviewLine(log) ==
    <<"[preview] r">> \o log.version \o <<" -> SVN: ">> \o log.message

\* get_logs fails: the ? returns its error.
RunGetLogsErr ==
    /\ pc = "idle"
    /\ \E o \in RunOptions, e \in Failures("svn log") :
        /\ options' = o
        /\ calls' = Append(calls, FailedCall("get_logs", <<>>, e))
        /\ Return(Err(e))
    /\ UNCHANGED << fetched, svn_logs, idx, status_output, commit_messages,
                    printed, records, stored >>
    /\ UNCHANGED mainvars

\* RunNoLogs without the is_empty() check: the loop runs zero times and the
\* run goes on to history.save().
RunNoLogsSaves ==
    /\ pc = "idle"
    /\ \E o \in RunOptions, logs \in RunLogs :
        /\ limit_logs(logs, o.limit) = <<>>
        /\ options' = o
        /\ fetched' = logs
        /\ svn_logs' = limit_logs(logs, o.limit)
        /\ calls' = Append(calls, Call("get_logs", <<>>, TRUE))
        /\ pc' = "save"
    /\ UNCHANGED << idx, result, status_output, commit_messages, printed,
                    records, stored >>
    /\ UNCHANGED mainvars

\* The truncated log is empty: success at once.
RunNoLogs ==
    /\ pc = "idle"
    /\ \E o \in RunOptions, logs \in RunLogs :
        /\ limit_logs(logs, o.limit) = <<>>
        /\ options' = o
        /\ fetched' = logs
        /\ svn_logs' = limit_logs(logs, o.limit)
        /\ calls' = Append(calls, Call("get_logs", <<>>, TRUE))
        /\ Return(Ok)
    /\ UNCHANGED << idx, status_output, commit_messages, printed, records, stored >>
    /\ UNCHANGED mainvars

\* RunDryRun without its return: after the preview the run goes on to confirm.
RunDryRunFallsThrough ==
    /\ pc = "idle"
    /\ \E o \in RunOptions, logs \in RunLogs :
        /\ limit_logs(logs, o.limit) # <<>>
        /\ o.dry_run
        /\ options' = o
        /\ fetched' = logs
        /\ svn_logs' = limit_logs(logs, o.limit)
        /\ calls' = Append(calls, Call("get_logs", <<>>, TRUE))
        /\ printed' = [i \in 1..Len(limit_logs(logs, o.limit)) |->
                          PreviewLine(limit_logs(logs, o.limit)[i])]
        /\ pc' = "confirm"
    /\ UNCHANGED << idx, result, status_output, commit_messages, records, stored >>
    /\ UNCHANGED mainvars

\* dry_run: one preview line per pending entry, then success.
RunDryRun ==
    /\ pc = "idle"
    /\ \E o \in RunOptions, logs \in RunLogs :
        /\ limit_logs(logs, o.limit) # <<>>
        /\ o.dry_run
        /\ options' = o
        /\ fetched' = logs
        /\ svn_logs' = limit_logs(logs, o.limit)
        /\ calls' = Append(calls, Call("get_logs", <<>>, TRUE))
        /\ printed' = [i \in 1..Len(limit_logs(logs, o.limit)) |->
                          PreviewLine(limit_logs(logs, o.limit)[i])]
        /\ Return(Ok)
    /\ UNCHANGED << idx, status_output, commit_messages, records, stored >>
    /\ UNCHANGED mainvars

\* Entries are pending and the run is not a dry run: go on to confirm.
RunPending ==
    /\ pc = "idle"
    /\ \E o \in RunOptions, logs \in RunLogs :
        /\ limit_logs(logs, o.limit) # <<>>
        /\ ~o.dry_run
        /\ options' = o
        /\ fetched' = logs
        /\ svn_logs' = limit_logs(logs, o.limit)
        /\ calls' = Append(calls, Call("get_logs", <<>>, TRUE))
        /\ pc' = "confirm"
    /\ UNCHANGED << idx, result, status_output, commit_messages, printed,
                    records, stored >>
    /\ UNCHANGED mainvars

\* confirm_sync_with_interactor returns true: the loop starts.
ConfirmAccept ==
    /\ pc = "confirm"
    /\ \E prompt \in ConfirmPrompts :
        /\ confirm_sync(prompt)
        /\ calls' = Append(calls, ConfirmCall(svn_logs, prompt))
    /\ idx' = 0
    /\ pc' = "update_to_rev"
    /\ UNCHANGED << options, fetched, svn_logs, result, status_output,
                    commit_messages, printed, records, stored >>
    /\ UNCHANGED mainvars

\* ConfirmDecline with the answer ignored: the loop starts all the same.
ConfirmDeclineIgnored ==
    /\ pc = "confirm"
    /\ \E prompt \in ConfirmPrompts :
        /\ ~confirm_sync(prompt)
        /\ calls' = Append(calls, ConfirmCall(svn_logs, prompt))
    /\ idx' = 0
    /\ pc' = "update_to_rev"
    /\ UNCHANGED << options, fetched, svn_logs, result, status_output,
                    commit_messages, printed, records, stored >>
    /\ UNCHANGED mainvars

\* confirm_sync_with_interactor returns false: success, nothing done.
ConfirmDecline ==
    /\ pc = "confirm"
    /\ \E prompt \in ConfirmPrompts :
        /\ ~confirm_sync(prompt)
        /\ calls' = Append(calls, ConfirmCall(svn_logs, prompt))
    /\ Return(Ok)
    /\ UNCHANGED << options, fetched, svn_logs, idx, status_output,
                    commit_messages, printed, records, stored >>
    /\ UNCHANGED mainvars

(***************************************************************************)
(* The loop: for (idx, log) in svn_logs.iter().enumerate()                 *)
(***************************************************************************)

\* The loop walking the log from its end: svn_logs.iter().rev().
logReversed == svn_logs[Len(svn_logs) - idx]

\* The entry the loop is at.
log == svn_logs[idx + 1]

\* A step of the loop fails with e: the wrapped error is returned.
Abort(e) == Return(Err(StepError(idx, log, e)))

\* update_to_rev succeeds.
UpdateOk ==
    /\ pc = "update_to_rev"
    /\ calls' = Append(calls, Call("update_to_rev", log.version, TRUE))
    /\ pc' = "status"
    /\ UNCHANGED << options, fetched, svn_logs, idx, result, status_output,
                    commit_messages, printed, records, stored >>
    /\ UNCHANGED mainvars

\* UpdateErr with a retry: the failed update is issued again.
UpdateErrRetries ==
    /\ pc = "update_to_rev"
    /\ \E e \in Failures("svn update") :
        calls' = Append(calls, FailedCall("update_to_rev", log.version, e))
    /\ UNCHANGED << pc, options, fetched, svn_logs, idx, result, status_output,
                    commit_messages, printed, records, stored >>
    /\ UNCHANGED mainvars

\* update_to_rev fails.
UpdateErr ==
    /\ pc = "update_to_rev"
    /\ \E e \in Failures("svn update") :
        /\ calls' = Append(calls, FailedCall("update_to_rev", log.version, e))
        /\ Abort(e)
    /\ UNCHANGED << options, fetched, svn_logs, idx, status_output,
                    commit_messages, printed, records, stored >>
    /\ UNCHANGED mainvars

\* ensure_git_conflict_free: status fails.
StatusErr ==
    /\ pc = "status"
    /\ \E e \in Failures("git status") :
        /\ calls' = Append(calls, FailedCall("status", <<>>, e))
        /\ Abort(e)
    /\ UNCHANGED << options, fetched, svn_logs, idx, status_output,
                    commit_messages, printed, records, stored >>
    /\ UNCHANGED mainvars

\* ensure_git_conflict_free: status returns a text has_conflict_entries
\* does not pass: the conflict error, or the panic of the slice.
StatusConflict ==
    /\ pc = "status"
    /\ \E text \in StatusTexts :
        /\ has_conflict_entries(text) # "false"
        /\ status_output' = text
        /\ IF has_conflict_entries(text) = "panic"
           THEN Return(Panicked)
           ELSE Abort(ConflictError)
    /\ calls' = Append(calls, Call("status", <<>>, TRUE))
    /\ UNCHANGED << options, fetched, svn_logs, idx, commit_messages, printed,
                    records, stored >>
    /\ UNCHANGED mainvars

\* ensure_git_conflict_free: status returns a text without conflict entries.
StatusClean ==
    /\ pc = "status"
    /\ \E text \in StatusTexts :
        /\ has_conflict_entries(text) = "false"
        /\ status_output' = text
    /\ calls' = Append(calls, Call("status", <<>>, TRUE))
    /\ pc' = "add_all"
    /\ UNCHANGED << options, fetched, svn_logs, idx, result, commit_messages,
                    printed, records, stored >>
    /\ UNCHANGED mainvars

\* git_commit_with_ops: add_all succeeds.
AddAllOk ==
    /\ pc = "add_all"
    /\ calls' = Append(calls, Call("add_all", <<>>, TRUE))
    /\ pc' = "commit"
    /\ UNCHANGED << options, fetched, svn_logs, idx, result, status_output,
                    commit_messages, printed, records, stored >>
    /\ UNCHANGED mainvars

\* AddAllErr with the error dropped: commit is called all the same.
AddAllErrCommits ==
    /\ pc = "add_all"
    /\ \E e \in Failures("git add") :
        calls' = Append(calls, FailedCall("add_all", <<>>, e))
    /\ pc' = "commit"
    /\ UNCHANGED << options, fetched, svn_logs, idx, result, status_output,
                    commit_messages, printed, records, stored >>
    /\ UNCHANGED mainvars

\* git_commit_with_ops: add_all fails.
AddAllErr ==
    /\ pc = "add_all"
    /\ \E e \in Failures("git add") :
        /\ calls' = Append(calls, FailedCall("add_all", <<>>, e))
        /\ Abort(e)
    /\ UNCHANGED << options, fetched, svn_logs, idx, status_output,
                    commit_messages, printed, records, stored >>
    /\ UNCHANGED mainvars

\* CommitOk with history.save() inside the loop body.
CommitOkSavesAtOnce ==
    /\ pc = "commit"
    /\ calls' = Append(calls, Call("commit", CommitMessage(log), TRUE))
    /\ commit_messages' = Append(commit_messages, CommitMessage(log))
    /\ idx' = idx + 1
    /\ pc' = "save"
    /\ UNCHANGED << options, fetched, svn_logs, result, status_output, printed,
                    records, stored >>
    /\ UNCHANGED mainvars

\* git_commit_with_ops: commit succeeds; the loop goes to the next entry, or
\* to history.save() after the last.
CommitOk ==
    /\ pc = "commit"
    /\ calls' = Append(calls, Call("commit", CommitMessage(log), TRUE))
    /\ commit_messages' = Append(commit_messages, CommitMessage(log))
    /\ idx' = idx + 1
    /\ pc' = IF idx + 1 < Len(svn_logs) THEN "update_to_rev" ELSE "save"
    /\ UNCHANGED << options, fetched, svn_logs, result, status_output, printed,
                    records, stored >>
    /\ UNCHANGED mainvars

\* CommitErr with the failing entry skipped: the loop goes on.
CommitErrSkips ==
    /\ pc = "commit"
    /\ \E e \in Failures("git commit") :
        calls' = Append(calls, FailedCall("commit", CommitMessage(log), e))
    /\ idx' = idx + 1
    /\ pc' = IF idx + 1 < Len(svn_logs) THEN "update_to_rev" ELSE "save"
    /\ UNCHANGED << options, fetched, svn_logs, result, status_output,
                    commit_messages, printed, records, stored >>
    /\ UNCHANGED mainvars

\* git_commit_with_ops: commit fails.
CommitErr ==
    /\ pc = "commit"
    /\ \E e \in Failures("git commit") :
        /\ calls' = Append(calls, FailedCall("commit", CommitMessage(log), e))
        /\ Abort(e)
    /\ UNCHANGED << options, fetched, svn_logs, idx, status_output,
                    commit_messages, printed, records, stored >>
    /\ UNCHANGED mainvars

(***************************************************************************)
(* self.history.save(): the result of the run                              *)
(***************************************************************************)

\* storage.save(&self.records) succeeds.
SaveOk ==
    /\ pc = "save"
    /\ calls' = Append(calls, Call("save", records, TRUE))
    /\ stored' = records
    /\ Return(Ok)
    /\ UNCHANGED << options, fetched, svn_logs, idx, status_output,
                    commit_messages, printed, records >>
    /\ UNCHANGED mainvars

\* storage.save(&self.records) fails: its error is the run's, unwrapped.
SaveErr ==
    /\ pc = "save"
    /\ \E e \in Failures("save") :
        /\ calls' = Append(calls, FailedCall("save", records, e))
        /\ Return(Err(e))
    /\ UNCHANGED << options, fetched, svn_logs, idx, status_output,
                    commit_messages, printed, records, stored >>
    /\ UNCHANGED mainvars

Next ==
    \/ RunGetLogsErr
    \/ RunNoLogs
    \/ RunDryRun
    \/ RunPending
    \/ ConfirmAccept
    \/ ConfirmDecline
    \/ UpdateOk
    \/ UpdateErr
    \/ StatusErr
    \/ StatusConflict
    \/ StatusClean
    \/ AddAllOk
    \/ AddAllErr
    \/ CommitOk
    \/ CommitErr
    \/ SaveOk
    \/ SaveErr

Spec == Init /\ [][Next]_vars

(***************************************************************************)
(* Paths: PathBuf compares by components                                   *)
(***************************************************************************)

\* The pieces of a path between its separators.
RECURSIVE SplitPath(_, _)
SplitPath(p, cur) ==
    IF p = <<>> THEN <<cur>>
    ELSE IF Head(p) = "/" THEN <<cur>> \o SplitPath(Tail(p), <<>>)
    ELSE SplitPath(Tail(p), Append(cur, Head(p)))

\* Path::components: whether the path starts at the root, and its names; a
\* repeated or trailing separator gives no component, and neither does a
\* "." that is not the first piece.
Components(p) ==
    LET pieces == SplitPath(p, <<>>)
        tagged == [i \in DOMAIN pieces |-> <<i, pieces[i]>>]
        kept == SelectSeq(tagged,
                    LAMBDA t : t[2] # <<>> /\ (t[2] # <<".">> \/ t[1] = 1))
    IN [root |-> p # <<>> /\ Head(p) = "/",
        names |-> [i \in DOMAIN kept |-> kept[i][2]]]

\* PathBuf == PathBuf
PathEq(a, b) == Components(a) = Components(b)

\* PathBuf::from_str(&text).unwrap(): the path holds the text as typed.
PathBufFromStr(text) == text

(***************************************************************************)
(* HistoryManager (src/src/config/manager.rs)                              *)
(***************************************************************************)

\* HistoryRecord::path_eq
path_eq(r, svn_path, git_path) ==
    PathEq(r.svn_path, svn_path) /\ PathEq(r.git_path, git_path)

\* HistoryRecord::to_sync_config
to_sync_config(r) == SyncConfig(r.svn_path, r.git_path)

\* One step of the stable sort: r goes after the records of sorted that
\* cmp_last_used does not put after it.
InsertByLastUsed(sorted, r) ==
    LET k == Cardinality({ i \in DOMAIN sorted : sorted[i].last_used <= r.last_used })
    IN SubSeq(sorted, 1, k) \o <<r>> \o SubSeq(sorted, k + 1, Len(sorted))

\* sort_by leaving the records as they are.
sort_by_cmp_last_used_Skipped(recs) == recs

\* records.sort_by(reocrd::cmp_last_used): a stable sort, ascending.
RECURSIVE sort_by_cmp_last_used(_)
sort_by_cmp_last_used(recs) ==
    IF recs = <<>> THEN <<>>
    ELSE InsertByLastUsed(sort_by_cmp_last_used(SubSeq(recs, 1, Len(recs) - 1)),
                          recs[Len(recs)])

\* add_record without the retain: the pair's earlier record stays.
add_record_KeepsEarlier(recs, svn_path, git_path, at) ==
    sort_by_cmp_last_used(
        Append(recs, HistoryRecord(Len(recs) + 1, svn_path, git_path, at)))

\* add_record putting the new record first.
add_record_Prepends(recs, svn_path, git_path, at) ==
    LET kept == SelectSeq(recs, LAMBDA r : ~path_eq(r, svn_path, git_path))
    IN <<HistoryRecord(Len(kept) + 1, svn_path, git_path, at)>> \o kept

\* HistoryManager::add_record, the clock reading at.
add_record(recs, svn_path, git_path, at) ==
    LET kept == SelectSeq(recs, LAMBDA r : ~path_eq(r, svn_path, git_path))
    IN sort_by_cmp_last_used(
           Append(kept, HistoryRecord(Len(kept) + 1, svn_path, git_path, at)))

\* Vec::remove(index), index counted from 0.
\* Vec::swap_remove in place of Vec::remove: the last record takes the
\* place of the removed one.
remove_SwapsLast(recs, index) ==
    IF index + 1 = Len(recs)
    THEN SubSeq(recs, 1, index)
    ELSE SubSeq(recs, 1, index) \o << recs[Len(recs)] >>
            \o SubSeq(recs, index + 2, Len(recs) - 1)

\* Removing the records whose id is the argument, not the one at the index.
remove_ById(recs, index) ==
    SelectSeq(recs, LAMBDA r : r.id # index)

remove(recs, index) ==
    SubSeq(recs, 1, index) \o SubSeq(recs, index + 2, Len(recs))

\* The clock readings Utc::now() gives; the wall clock can be set back, so
\* a later reading can be the smaller one.
Times == 1..MaxTime

\* The paths an operator names: a directory, written with and without a
\* trailing separator, and a second directory.
SvnDirs == { <<"s">>, <<"s", "/">> }

GitDirs == { <<"g">> }

\* The pairs a record is added for; in the last one both paths are one
\* directory.
Pairs == (SvnDirs \X GitDirs) \cup { << <<"s">>, <<"s">> >> }

\* The indexes remove_record is called with, in range and out of range.
Indexes == 0..Cardinality(Pairs)

\* What a step on the history manager leaves alone.
runvars ==
    << options, fetched, svn_logs, idx, calls, status_output, commit_messages,
       printed, cli, config, backends >>

\* A manager over a storage without a file: load gave no record.
HistoryInit ==
    /\ pc = "history"
    /\ options = DefaultOptions
    /\ fetched = <<>>
    /\ svn_logs = <<>>
    /\ idx = 0
    /\ result = NoResult
    /\ calls = <<>>
    /\ status_output = <<>>
    /\ commit_messages = <<>>
    /\ printed = <<>>
    /\ records = <<>>
    /\ stored = <<>>
    /\ cli = NoCli
    /\ config = create_config
    /\ last_op = NoOp
    /\ BackendsIdle

\* HistoryManager::new: the records are what storage.load() gives.
HistoryNew ==
    /\ pc = "history"
    /\ records' = stored
    /\ last_op' = [op |-> "load", result |-> Ok]
    /\ UNCHANGED << pc, result, stored >>
    /\ UNCHANGED runvars

\* HistoryManager::new, storage.load() failing: no manager is built, the
\* one at hand stays.
HistoryNewErr ==
    /\ pc = "history"
    /\ \E e \in Failures("load") : last_op' = [op |-> "load", result |-> Err(e)]
    /\ UNCHANGED << pc, result, records, stored >>
    /\ UNCHANGED runvars

\* HistoryManager::add_record
AddRecord ==
    /\ pc = "history"
    /\ \E pair \in Pairs, at \in Times :
        /\ records' = add_record(records, pair[1], pair[2], at)
        /\ last_op' = [op |-> "add", svn_path |-> pair[1], git_path |-> pair[2],
                       at |-> at, before |-> records]
    /\ UNCHANGED << pc, result, stored >>
    /\ UNCHANGED runvars

\* HistoryManager::save, storage.save succeeding.
HistorySaveOk ==
    /\ pc = "history"
    /\ stored' = records
    /\ last_op' = [op |-> "save", result |-> Ok]
    /\ UNCHANGED << pc, result, records >>
    /\ UNCHANGED runvars

\* HistoryManager::save, storage.save failing.
HistorySaveErr ==
    /\ pc = "history"
    /\ \E e \in Failures("save") : last_op' = [op |-> "save", result |-> Err(e)]
    /\ UNCHANGED << pc, result, records, stored >>
    /\ UNCHANGED runvars

\* HistoryManager::remove_record with an index >= records.len().
RemoveRecordOutOfRange ==
    /\ pc = "history"
    /\ \E index \in Indexes :
        /\ index >= Len(records)
        /\ last_op' = [op |-> "remove", index |-> index,
                       result |-> Err(App(<<"index out of range">>))]
    /\ UNCHANGED << pc, result, records, stored >>
    /\ UNCHANGED runvars

\* HistoryManager::remove_record: the record is removed and the rest saved.
RemoveRecordOk ==
    /\ pc = "history"
    /\ \E index \in Indexes :
        /\ index < Len(records)
        /\ records' = remove(records, index)
        /\ last_op' = [op |-> "remove", index |-> index, result |-> Ok]
    /\ stored' = records'
    /\ UNCHANGED << pc, result >>
    /\ UNCHANGED runvars

\* HistoryManager::remove_record, the save failing: the record is removed
\* from the manager only.
RemoveRecordSaveErr ==
    /\ pc = "history"
    /\ \E index \in Indexes, e \in Failures("save") :
        /\ index < Len(records)
        /\ records' = remove(records, index)
        /\ last_op' = [op |-> "remove", index |-> index, result |-> Err(e)]
    /\ UNCHANGED << pc, result, stored >>
    /\ UNCHANGED runvars

HistoryNext ==
    \/ HistoryNew
    \/ HistoryNewErr
    \/ AddRecord
    \/ HistorySaveOk
    \/ HistorySaveErr
    \/ RemoveRecordOutOfRange
    \/ RemoveRecordOk
    \/ RemoveRecordSaveErr

\* Any sequence of operations on one history manager and its storage.
HistorySpec == HistoryInit /\ [][HistoryNext]_vars

(***************************************************************************)
(* has_conflict_entries on its own: any status text a GitOperations        *)
(* implementation may hand back, not only the texts of the two backends.   *)
(***************************************************************************)

\* Longest status text scanned.
MaxText == 4

\* The characters of the texts: the letters of the codes, other markers, a
\* blank, the line break and a character of three bytes.
ScanChars == { "U", "A", "D", "?", "M", " ", "\n", "CJK" }

RECURSIVE TextsOfLen(_)
TextsOfLen(n) ==
    IF n = 0
    THEN { <<>> }
    ELSE { Append(text, c) : text \in TextsOfLen(n - 1), c \in ScanChars }

ScanTexts == UNION { TextsOfLen(n) : n \in 0..MaxText }

\* What the scan leaves alone.
scanvars ==
    << options, fetched, svn_logs, idx, calls, commit_messages, printed,
       records, stored, cli, config, last_op, backends >>

\* A status text was returned and is about to be scanned.
ScanInit ==
    /\ pc = "scan"
    /\ options = DefaultOptions
    /\ fetched = <<>>
    /\ svn_logs = <<>>
    /\ idx = 0
    /\ result = NoResult
    /\ calls = <<>>
    /\ status_output \in ScanTexts
    /\ commit_messages = <<>>
    /\ printed = <<>>
    /\ records = <<>>
    /\ stored = <<>>
    /\ cli = NoCli
    /\ config = create_config
    /\ last_op = NoOp
    /\ BackendsIdle

\* has_conflict_entries returns a bool.
ScanReturns ==
    /\ pc = "scan"
    /\ has_conflict_entries(status_output) # "panic"
    /\ result' = [tag |-> "Bool", val |-> has_conflict_entries(status_output) = "true"]
    /\ pc' = "scanned"
    /\ UNCHANGED status_output
    /\ UNCHANGED scanvars

\* has_conflict_entries panics on the slice.
ScanPanics ==
    /\ pc = "scan"
    /\ has_conflict_entries(status_output) = "panic"
    /\ result' = Panicked
    /\ pc' = "scanned"
    /\ UNCHANGED status_output
    /\ UNCHANGED scanvars

ScanNext == ScanReturns \/ ScanPanics

\* has_conflict_entries applied to each of the texts.
ScanSpec == ScanInit /\ [][ScanNext]_vars

(***************************************************************************)
(* Removing from a store earlier sessions wrote: three directory pairs, so *)
(* that a record can be removed from between two others.                   *)
(***************************************************************************)

RemovePairs ==
    { << <<"s">>, <<"g">> >>, << <<"s">>, <<"s">> >>, << <<"g">>, <<"g">> >> }

\* The stores n calls of add_record can have written.
RECURSIVE StoresAfter(_)
StoresAfter(n) ==
    IF n = 0
    THEN { <<>> }
    ELSE LET earlier == StoresAfter(n - 1)
         IN earlier \cup { add_record(recs, pair[1], pair[2], at) :
                             recs \in earlier, pair \in RemovePairs, at \in Times }

RemoveStores == StoresAfter(Cardinality(RemovePairs))

\* A manager built over one of these stores.
RemoveInit ==
    /\ pc = "history"
    /\ options = DefaultOptions
    /\ fetched = <<>>
    /\ svn_logs = <<>>
    /\ idx = 0
    /\ result = NoResult
    /\ calls = <<>>
    /\ status_output = <<>>
    /\ commit_messages = <<>>
    /\ printed = <<>>
    /\ stored \in RemoveStores
    /\ records = stored
    /\ cli = NoCli
    /\ config = create_config
    /\ last_op = [op |-> "load", result |-> Ok]
    /\ BackendsIdle

RemoveNext ==
    \/ HistoryNew
    \/ HistoryNewErr
    \/ HistorySaveOk
    \/ HistorySaveErr
    \/ RemoveRecordOutOfRange
    \/ RemoveRecordOk
    \/ RemoveRecordSaveErr

\* Any sequence of removals, saves and reloads on such a store.
RemoveSpec == RemoveInit /\ [][RemoveNext]_vars

(***************************************************************************)
(* config/disk.rs: DiskStorage, the history file as serde_json writes and  *)
(* reads it.  The document is an array with one object per record; the     *)
(* model keeps the array and the objects as they are and spells out the    *)
(* text of each member: the number, the two strings with their escapes,    *)
(* the time stamp with its fraction.                                       *)
(***************************************************************************)

\* SyncError::Json
Json(msg) == [kind |-> "Json", msg |-> msg]

\* A byte no UTF-8 text holds; a Unix file name may hold one.
InvalidByte == "<ff>"

\* Path::to_str, which Serialize for PathBuf goes through.
to_str(path) ==
    IF \E i \in 1..Len(path) : path[i] = InvalidByte THEN None ELSE Some(path)

\* An escape that leaves the backslash as it is.
RECURSIVE Escape_QuotesOnly(_)
Escape_QuotesOnly(text) ==
    IF text = <<>>
    THEN <<>>
    ELSE (IF Head(text) = "\"" THEN << "\\", Head(text) >> ELSE << Head(text) >>)
            \o Escape_QuotesOnly(Tail(text))

\* The body of a JSON string: quote and backslash are escaped.
RECURSIVE Escape(_)
Escape(text) ==
    IF text = <<>>
    THEN <<>>
    ELSE (IF Head(text) \in { "\"", "\\" }
          THEN << "\\", Head(text) >>
          ELSE << Head(text) >>) \o Escape(Tail(text))

JsonString(text) == << "\"" >> \o Escape(text) \o << "\"" >>

\* The text an escaped body stands for; None for a lone quote or a
\* backslash with nothing behind it.
RECURSIVE Unescape(_)
Unescape(body) ==
    IF body = <<>>
    THEN Some(<<>>)
    ELSE IF Head(body) = "\\"
    THEN IF Len(body) < 2
         THEN None
         ELSE LET rest == Unescape(SubSeq(body, 3, Len(body)))
              IN IF rest.some THEN Some(<< body[2] >> \o rest.val) ELSE None
    ELSE IF Head(body) = "\""
    THEN None
    ELSE LET rest == Unescape(Tail(body))
         IN IF rest.some THEN Some(<< Head(body) >> \o rest.val) ELSE None

ParseString(text) ==
    IF Len(text) < 2 \/ Head(text) # "\"" \/ text[Len(text)] # "\""
    THEN None
    ELSE Unescape(SubSeq(text, 2, Len(text) - 1))

DigitChars == << "0", "1", "2", "3", "4", "5", "6", "7", "8", "9" >>

IsDigits(text) ==
    /\ text # <<>>
    /\ \A i \in 1..Len(text) : \E v \in 1..Len(DigitChars) : DigitChars[v] = text[i]

\* The number a run of digits spells.
RECURSIVE DigitsValue(_)
DigitsValue(text) ==
    LET last == CHOOSE v \in 0..9 : DigitChars[v + 1] = text[Len(text)]
    IN IF Len(text) = 1
       THEN last
       ELSE 10 * DigitsValue(SubSeq(text, 1, Len(text) - 1)) + last

\* A JSON number read as usize: digits, no leading zero.
ParseUsize(text) ==
    IF IsDigits(text) /\ (Len(text) = 1 \/ Head(text) # "0")
    THEN Some(DigitsValue(text))
    ELSE None

\* DateTime<Utc>: the date and time of day to the second, as RFC 3339
\* writes them, and the nanoseconds within the second.
DateTime(second, nanos) == [second |-> second, nanos |-> nanos]

\* n in decimal, filled with zeros on the left to width digits.
RECURSIVE ZeroPadded(_, _)
ZeroPadded(n, width) ==
    IF width = 0 THEN <<>> ELSE ZeroPadded(n \div 10, width - 1) \o Digits(n % 10)

\* SecondsFormat::AutoSi: no fraction, or 3, 6 or 9 digits, whichever is
\* the shortest that loses nothing.
Fraction(nanos) ==
    IF nanos = 0 THEN <<>>
    ELSE IF nanos % 1000000 = 0 THEN << "." >> \o ZeroPadded(nanos \div 1000000, 3)
    ELSE IF nanos % 1000 = 0 THEN << "." >> \o ZeroPadded(nanos \div 1000, 6)
    ELSE << "." >> \o ZeroPadded(nanos, 9)

\* Serialize for DateTime<Utc>: RFC 3339 with Z.
JsonDateTime(t) == << "\"", t.second >> \o Fraction(t.nanos) \o << "Z", "\"" >>

RECURSIVE TimesTen(_, _)
TimesTen(n, times) == IF times = 0 THEN n ELSE TimesTen(10 * n, times - 1)

\* Deserialize for DateTime<Utc>: the fraction, when there is one, is read
\* as that many digits of a second.
ParseDateTime(text) ==
    IF Len(text) < 4 \/ Head(text) # "\"" \/ text[Len(text)] # "\""
          \/ text[Len(text) - 1] # "Z"
    THEN None
    ELSE LET fraction == SubSeq(text, 3, Len(text) - 2)
         IN IF fraction = <<>>
            THEN Some(DateTime(text[2], 0))
            ELSE IF Head(fraction) = "." /\ IsDigits(Tail(fraction))
                       /\ Len(fraction) <= 10
            THEN Some(DateTime(text[2],
                               TimesTen(DigitsValue(Tail(fraction)), 10 - Len(fraction))))
            ELSE None

\* #[derive(Serialize)] for HistoryRecord: None when a path has no text.
SerializeRecord(r) ==
    LET svn == to_str(r.svn_path)
        git == to_str(r.git_path)
    IN IF svn.some /\ git.some
       THEN Some([id |-> Digits(r.id),
                  svn_path |-> JsonString(svn.val),
                  git_path |-> JsonString(git.val),
                  last_used |-> JsonDateTime(r.last_used)])
       ELSE None

\* #[derive(Deserialize)] for HistoryRecord: None when a member does not
\* parse.
DeserializeRecord(object) ==
    LET id == ParseUsize(object.id)
        svn == ParseString(object.svn_path)
        git == ParseString(object.git_path)
        at == ParseDateTime(object.last_used)
    IN IF id.some /\ svn.some /\ git.some /\ at.some
       THEN Some(HistoryRecord(id.val, PathBufFromStr(svn.val),
                               PathBufFromStr(git.val), at.val))
       ELSE None

\* Bytes that are no JSON document (an empty or foreign file).
NotJson == [json |-> FALSE]

JsonArray(objects) == [json |-> TRUE, array |-> objects]

\* serde_json::to_vec(records)
to_vec(recs) ==
    IF \A i \in 1..Len(recs) : SerializeRecord(recs[i]).some
    THEN [tag |-> "Ok", buf |-> JsonArray([ i \in 1..Len(recs) |-> SerializeRecord(recs[i]).val ])]
    ELSE Err(Json(<<"path contains invalid UTF-8 characters">>))

\* serde_json::from_slice(&buf)
from_slice(buf) ==
    IF buf.json /\ \A i \in 1..Len(buf.array) : DeserializeRecord(buf.array[i]).some
    THEN [tag |-> "Ok",
          records |-> [ i \in 1..Len(buf.array) |-> DeserializeRecord(buf.array[i]).val ]]
    ELSE Err(Json(<<"invalid document">>))

FileOf(buf) == [exists |-> TRUE, buf |-> buf]

\* The records handed to save: each path with one of the time stamps, ids
\* of one and two digits, and two records of one directory pair.
DiskRecords ==
    { HistoryRecord(1, << "a" >>, << "b" >>, DateTime("2025-01-01T12:00:00", 0)),
      HistoryRecord(20, << "a" >>, << "b" >>, DateTime("2025-01-01T12:01:00", 123456789)),
      HistoryRecord(20, << "C", ":", "\\", "a", " ", "\"", "b" >>, << "b" >>,
                    DateTime("2025-01-01T12:00:00", 50000000)),
      HistoryRecord(3, << "b" >>, << "C", ":", "\\", "a", " ", "\"", "b" >>,
                    DateTime("2025-01-01T12:01:00", 7000)),
      HistoryRecord(1, << "a", InvalidByte >>, << "b" >>,
                    DateTime("2025-01-01T12:00:00", 0)) }

\* The lists handed to save: any records, in any order, ids as they come.
RecordLists ==
    { <<>> } \cup { << r >> : r \in DiskRecords }
             \cup { << r1, r2 >> : r1 \in DiskRecords, r2 \in DiskRecords }

\* What a step on the storage leaves alone.
diskvars ==
    << pc, options, fetched, svn_logs, idx, result, calls, status_output,
       commit_messages, printed, records, stored, cli, config, repos, tree,
       git_op, threads >>

\* A storage whose file does not exist, or holds what something else wrote.
DiskInit ==
    /\ pc = "disk"
    /\ options = DefaultOptions
    /\ fetched = <<>>
    /\ svn_logs = <<>>
    /\ idx = 0
    /\ result = NoResult
    /\ calls = <<>>
    /\ status_output = <<>>
    /\ commit_messages = <<>>
    /\ printed = <<>>
    /\ records = <<>>
    /\ stored = <<>>
    /\ cli = NoCli
    /\ config = create_config
    /\ last_op = NoOp
    /\ file \in { NoFile, FileOf(NotJson) }
    /\ repos = NoRepos
    /\ tree = NoRepos
    /\ git_op = NoOp
    /\ threads = NoThreads

\* The list a successful save just wrote, for the load that follows it.
JustSaved ==
    IF last_op.op = "save" /\ last_op.result = Ok THEN Some(last_op.records) ELSE None

\* DiskStorage::save, create_dir_all failing.
DiskSaveDirErr ==
    /\ pc = "disk"
    /\ \E recs \in RecordLists, e \in { Io(<<"os error">>) } :
        last_op' = [op |-> "save", records |-> recs, result |-> Err(e)]
    /\ UNCHANGED file
    /\ UNCHANGED diskvars

\* DiskStorage::save, to_vec failing: nothing is written.
DiskSaveJsonErr ==
    /\ pc = "disk"
    /\ \E recs \in RecordLists :
        /\ to_vec(recs).tag = "Err"
        /\ last_op' = [op |-> "save", records |-> recs, result |-> to_vec(recs)]
    /\ UNCHANGED file
    /\ UNCHANGED diskvars

\* DiskStorage::save, fs::write failing: the file is as it was when it
\* could not be opened, and cut short when the write broke off.
DiskSaveWriteErr ==
    /\ pc = "disk"
    /\ \E recs \in RecordLists, e \in { Io(<<"os error">>) } :
        /\ to_vec(recs).tag = "Ok"
        /\ last_op' = [op |-> "save", records |-> recs, result |-> Err(e)]
    /\ file' \in { file, FileOf(NotJson) }
    /\ UNCHANGED diskvars

\* DiskStorage::save
DiskSaveOk ==
    /\ pc = "disk"
    /\ \E recs \in RecordLists :
        /\ to_vec(recs).tag = "Ok"
        /\ file' = FileOf(to_vec(recs).buf)
        /\ last_op' = [op |-> "save", records |-> recs, result |-> Ok]
    /\ UNCHANGED diskvars

\* DiskStorage::load with no file at the path.
DiskLoadMissing ==
    /\ pc = "disk"
    /\ ~file.exists
    /\ last_op' = [op |-> "load", result |-> Ok, loaded |-> <<>>, saved |-> JustSaved]
    /\ UNCHANGED file
    /\ UNCHANGED diskvars

\* DiskStorage::load, fs::read failing.
DiskLoadReadErr ==
    /\ pc = "disk"
    /\ file.exists
    /\ last_op' = [op |-> "load", result |-> Err(Io(<<"os error">>)), saved |-> JustSaved]
    /\ UNCHANGED file
    /\ UNCHANGED diskvars

\* DiskStorage::load, from_slice failing.
DiskLoadJsonErr ==
    /\ pc = "disk"
    /\ file.exists
    /\ from_slice(file.buf).tag = "Err"
    /\ last_op' = [op |-> "load", result |-> from_slice(file.buf), saved |-> JustSaved]
    /\ UNCHANGED file
    /\ UNCHANGED diskvars

\* DiskStorage::load
DiskLoadOk ==
    /\ pc = "disk"
    /\ file.exists
    /\ from_slice(file.buf).tag = "Ok"
    /\ last_op' = [op |-> "load", result |-> Ok,
                   loaded |-> from_slice(file.buf).records, saved |-> JustSaved]
    /\ UNCHANGED file
    /\ UNCHANGED diskvars

DiskNext ==
    \/ DiskSaveDirErr
    \/ DiskSaveJsonErr
    \/ DiskSaveWriteErr
    \/ DiskSaveOk
    \/ DiskLoadMissing
    \/ DiskLoadReadErr
    \/ DiskLoadJsonErr
    \/ DiskLoadOk

\* Any sequence of saves and loads on one DiskStorage.
DiskSpec == DiskInit /\ [][DiskNext]_vars

(***************************************************************************)
(* ops/mock_git.rs: the in-memory Git backend.  A MockGitRepo holds the    *)
(* status of each file it was told of and the commits made; a method       *)
(* gives its result and the repository it leaves.  MockGitOperations       *)
(* keeps one repository per path string and works on a clone: it takes the *)
(* repository out with get_or_create_repo and puts it back with            *)
(* update_repo.                                                            *)
(***************************************************************************)

\* Longest commit log of a repository.
MaxCommits == 2

\* MockGitRepo::new
MockGitRepo(path) ==
    [path |-> path, files |-> [ f \in {} |-> "Untracked" ], commits |-> <<>>,
     initialized |-> FALSE, branch |-> "main"]

\* GitCommit; files is what the iteration over the HashMap collected, in
\* no order the program fixes, and is kept as the set of its elements.
GitCommit(hash, message, files) ==
    [hash |-> hash, message |-> message, timestamp |-> "2024-01-01T00:00:00Z",
     files |-> files]

\* What a &mut self method returns and the repository after it.
Outcome(r, repo) == [result |-> r, repo |-> repo]

\* An init that takes an initialized repository as well, as git init does.
init_Reinitializes(repo) == [result |-> Ok, repo |-> [repo EXCEPT !.initialized = TRUE]]

\* MockGitRepo::init
init(repo) ==
    IF repo.initialized
    THEN Outcome(Err(App(<<"already initialized">>)), repo)
    ELSE Outcome(Ok, [repo EXCEPT !.initialized = TRUE])

\* MockGitRepo::add_file
add_file(repo, file_path) ==
    [repo EXCEPT !.files =
        [ f \in DOMAIN repo.files \cup { file_path } |->
            IF f = file_path THEN "Untracked" ELSE repo.files[f] ]]

\* An add_all that stages untracked files only.
add_all_SkipsModified(repo) ==
    IF ~repo.initialized
    THEN [result |-> Err(App(<<"not initialized">>)), repo |-> repo]
    ELSE [result |-> Ok,
          repo |-> [repo EXCEPT !.files =
                      [ f \in DOMAIN repo.files |->
                          IF repo.files[f] = "Untracked" THEN "Staged"
                          ELSE repo.files[f] ]]]

\* MockGitRepo::add_all
add_all(repo) ==
    IF ~repo.initialized
    THEN Outcome(Err(App(<<"not initialized">>)), repo)
    ELSE Outcome(Ok, [repo EXCEPT !.files =
            [ f \in DOMAIN repo.files |->
                IF repo.files[f] \in { "Untracked", "Modified" }
                THEN "Staged" ELSE repo.files[f] ]])

\* A commit that does not look for staged files first.
commit_AllowsEmpty(repo, message) ==
    LET staged_files == { f \in DOMAIN repo.files : repo.files[f] = "Staged" }
    IN IF ~repo.initialized
       THEN [result |-> Err(App(<<"not initialized">>)), repo |-> repo]
       ELSE [result |-> Ok,
             repo |-> [repo EXCEPT
                 !.commits = Append(repo.commits,
                     [hash |-> <<"commit">> \o Digits(Len(repo.commits) + 1),
                      message |-> message, timestamp |-> "2024-01-01T00:00:00Z",
                      files |-> staged_files]),
                 !.files = [ f \in DOMAIN repo.files |->
                               IF f \in staged_files THEN "Committed"
                               ELSE repo.files[f] ]]]

\* A commit that puts the new record in front of the earlier ones.
commit_Prepends(repo, message) ==
    LET staged_files == { f \in DOMAIN repo.files : repo.files[f] = "Staged" }
    IN IF ~repo.initialized
       THEN [result |-> Err(App(<<"not initialized">>)), repo |-> repo]
       ELSE IF staged_files = {}
       THEN [result |-> Err(App(<<"nothing staged">>)), repo |-> repo]
       ELSE [result |-> Ok,
             repo |-> [repo EXCEPT
                 !.commits =
                     << [hash |-> <<"commit">> \o Digits(Len(repo.commits) + 1),
                         message |-> message, timestamp |-> "2024-01-01T00:00:00Z",
                         files |-> staged_files] >> \o repo.commits,
                 !.files = [ f \in DOMAIN repo.files |->
                               IF f \in staged_files THEN "Committed"
                               ELSE repo.files[f] ]]]

\* MockGitRepo::commit
commit(repo, message) ==
    LET staged_files == { f \in DOMAIN repo.files : repo.files[f] = "Staged" }
    IN IF ~repo.initialized
       THEN Outcome(Err(App(<<"not initialized">>)), repo)
       ELSE IF staged_files = {}
       THEN Outcome(Err(App(<<"nothing staged">>)), repo)
       ELSE Outcome(Ok,
              [repo EXCEPT
                 !.commits = Append(repo.commits,
                     GitCommit(<<"commit">> \o Digits(Len(repo.commits) + 1),
                               message, staged_files)),
                 !.files = [ f \in DOMAIN repo.files |->
                               IF f \in staged_files THEN "Committed"
                               ELSE repo.files[f] ]])

\* A cleanliness test that takes staged files for clean.
is_working_directory_clean_IgnoresStaged(repo) ==
    \A f \in DOMAIN repo.files : repo.files[f] \in { "Committed", "Staged" }

\* MockGitRepo::is_working_directory_clean
is_working_directory_clean(repo) ==
    \A f \in DOMAIN repo.files : repo.files[f] = "Committed"

\* A modify_file that marks the file before it looks at its state.
modify_file_MarksThenFails(repo, file_path) ==
    IF file_path \notin DOMAIN repo.files
    THEN [result |-> Err(App(<<"no such file">>)), repo |-> repo]
    ELSE [result |-> IF repo.files[file_path] # "Committed"
                     THEN Err(App(<<"not committed">>)) ELSE Ok,
          repo |-> [repo EXCEPT !.files[file_path] = "Modified"]]

\* MockGitRepo::modify_file
modify_file(repo, file_path) ==
    IF file_path \notin DOMAIN repo.files
    THEN Outcome(Err(App(<<"no such file">>)), repo)
    ELSE IF repo.files[file_path] # "Committed"
    THEN Outcome(Err(App(<<"not committed">>)), repo)
    ELSE Outcome(Ok, [repo EXCEPT !.files[file_path] = "Modified"])

\* MockGitOperations::update_repo
update_repo(table, path, repo) ==
    [ p \in DOMAIN table \cup { path } |-> IF p = path THEN repo ELSE table[p] ]

\* MockGitOperations::get_or_create_repo: the table after the call, in
\* which the path has a repository; the caller's clone is that entry.
get_or_create_repo(table, path) ==
    IF path \in DOMAIN table THEN table ELSE update_repo(table, path, MockGitRepo(path))

\* The text MockGitOperations::status answers with.
status_text(repo) ==
    IF is_working_directory_clean(repo)
    THEN <<>>
    ELSE << "?", "?", " ", "some_untracked_file.txt", "\n",
            "M", " ", "some_modified_file.txt" >>

\* commits.iter().rev().take(limit), one format!("{} {}\n") each.
RECURSIVE log_lines(_, _)
log_lines(commits, limit) ==
    IF limit = 0 \/ commits = <<>>
    THEN <<>>
    ELSE commits[Len(commits)].hash \o << " " >> \o commits[Len(commits)].message
            \o << "\n" >> \o log_lines(SubSeq(commits, 1, Len(commits) - 1), limit - 1)

\* The text MockGitOperations::log answers with.
log_text(repo, count) ==
    log_lines(repo.commits, IF count.some THEN count.val ELSE Len(repo.commits))

\* The paths, file names, commit messages (one of two lines) and log
\* counts the backend is called with; files are put into the directory of
\* the first path only.
GitPaths == { "p", "q" }

GitFiles == { "a", "b" }

FilledPaths == { "p" }

GitMessages == { << "m" >>, << "s", "\n", "t" >> }

Counts == { None, Some(0), Some(1), Some(MaxCommits + 1) }

\* What a call on the backend leaves alone; calls keeps the init calls
\* that succeeded.
gitothers ==
    << pc, options, fetched, svn_logs, idx, result, status_output,
       commit_messages, printed, records, stored, cli, config, last_op, file,
       tree, threads >>

gitvars == << gitothers, calls >>

\* MockGitOperations::new
GitInit ==
    /\ pc = "git"
    /\ options = DefaultOptions
    /\ fetched = <<>>
    /\ svn_logs = <<>>
    /\ idx = 0
    /\ result = NoResult
    /\ calls = <<>>
    /\ status_output = <<>>
    /\ commit_messages = <<>>
    /\ printed = <<>>
    /\ records = <<>>
    /\ stored = <<>>
    /\ cli = NoCli
    /\ config = create_config
    /\ last_op = NoOp
    /\ BackendsIdle

\* MockGitOperations::init
MockInit ==
    /\ pc = "git"
    /\ \E path \in GitPaths :
        LET table == get_or_create_repo(repos, path)
            out == init(table[path])
        IN /\ repos' = IF out.result = Ok THEN update_repo(table, path, out.repo)
                       ELSE table
           /\ git_op' = [op |-> "init", path |-> path, result |-> out.result]
           /\ calls' = IF out.result = Ok
                       THEN Append(calls, Call("init", path, TRUE)) ELSE calls
    /\ UNCHANGED gitothers

\* MockGitOperations::config_user
MockConfigUser ==
    /\ pc = "git"
    /\ \E path \in GitPaths :
        git_op' = [op |-> "config_user", path |-> path, result |-> Ok]
    /\ UNCHANGED repos
    /\ UNCHANGED gitvars

\* MockGitOperations::add_file_to_mock
MockAddFile ==
    /\ pc = "git"
    /\ \E path \in FilledPaths, file_path \in GitFiles :
        LET table == get_or_create_repo(repos, path)
        IN /\ repos' = update_repo(table, path, add_file(table[path], file_path))
           /\ git_op' = [op |-> "add_file", path |-> path, file |-> file_path,
                         result |-> Ok]
    /\ UNCHANGED gitvars

\* MockGitRepo::modify_file, on the repository of a path.
MockModifyFile ==
    /\ pc = "git"
    /\ \E path \in DOMAIN repos \cap FilledPaths, file_path \in GitFiles :
        LET out == modify_file(repos[path], file_path)
        IN /\ repos' = update_repo(repos, path, out.repo)
           /\ git_op' = [op |-> "modify_file", path |-> path, file |-> file_path,
                         result |-> out.result]
    /\ UNCHANGED gitvars

\* MockGitOperations::add_all
MockAddAll ==
    /\ pc = "git"
    /\ \E path \in GitPaths :
        LET table == get_or_create_repo(repos, path)
            out == add_all(table[path])
        IN /\ repos' = update_repo(table, path, out.repo)
           /\ git_op' = [op |-> "add_all", path |-> path, result |-> out.result]
    /\ UNCHANGED gitvars

\* MockGitOperations::commit; the log is capped at MaxCommits records.
MockCommit ==
    /\ pc = "git"
    /\ \E path \in GitPaths, message \in GitMessages :
        LET table == get_or_create_repo(repos, path)
            out == commit(table[path], message)
        IN /\ Len(table[path].commits) < MaxCommits
           /\ repos' = update_repo(table, path, out.repo)
           /\ git_op' = [op |-> "commit", path |-> path, message |-> message,
                         result |-> out.result]
    /\ UNCHANGED gitvars

\* ops/git.rs git_commit_with_ops over the in-memory backend: add_all,
\* then commit, the first error returned.
MockCommitWithOps ==
    /\ pc = "git"
    /\ \E path \in GitPaths, message \in GitMessages :
        LET table == get_or_create_repo(repos, path)
            added == add_all(table[path])
            staged == update_repo(table, path, added.repo)
            out == commit(staged[path], message)
        IN /\ Len(table[path].commits) < MaxCommits
           /\ repos' = IF added.result = Ok
                       THEN update_repo(staged, path, out.repo) ELSE staged
           /\ git_op' = [op |-> "git_commit_with_ops", path |-> path,
                         message |-> message,
                         result |-> IF added.result = Ok THEN out.result
                                    ELSE added.result]
    /\ UNCHANGED gitvars

\* MockGitOperations::status
MockStatus ==
    /\ pc = "git"
    /\ \E path \in GitPaths :
        LET table == get_or_create_repo(repos, path)
        IN /\ repos' = table
           /\ git_op' = [op |-> "status", path |-> path, result |-> Ok,
                         output |-> status_text(table[path])]
    /\ UNCHANGED gitvars

\* MockGitOperations::log
MockLog ==
    /\ pc = "git"
    /\ \E path \in GitPaths, count \in Counts :
        LET table == get_or_create_repo(repos, path)
        IN /\ repos' = table
           /\ git_op' = [op |-> "log", path |-> path, count |-> count,
                         result |-> Ok, output |-> log_text(table[path], count)]
    /\ UNCHANGED gitvars

\* MockGitOperations::is_clean
MockIsClean ==
    /\ pc = "git"
    /\ \E path \in GitPaths :
        LET table == get_or_create_repo(repos, path)
        IN /\ repos' = table
           /\ git_op' = [op |-> "is_clean", path |-> path, result |-> Ok,
                         clean |-> is_working_directory_clean(table[path])]
    /\ UNCHANGED gitvars

GitNext ==
    \/ MockInit
    \/ MockConfigUser
    \/ MockAddFile
    \/ MockModifyFile
    \/ MockAddAll
    \/ MockCommit
    \/ MockCommitWithOps
    \/ MockStatus
    \/ MockLog
    \/ MockIsClean

\* Any sequence of calls on one in-memory backend, from one thread.
GitSpec == GitInit /\ [][GitNext]_vars

(***************************************************************************)
(* ops/real_git.rs next to ops/mock_git.rs: the process-backed backend     *)
(* runs the git program in the directory of the path and fails exactly     *)
(* when the program cannot be started or exits with a status other than 0. *)
(* The program is there, the directory exists and a committer is           *)
(* configured; what is left is what git does with the directory: init      *)
(* exits with 0 in a directory that is a repository already, add and       *)
(* commit exit with 128 outside a repository, commit exits with 1 when the *)
(* index holds no change.                                                  *)
(***************************************************************************)

\* A directory that is no repository yet.
Directory ==
    [initialized |-> FALSE, files |-> [ f \in {} |-> "Untracked" ], commits |-> <<>>]

\* Writing a file in the directory, as git sees it afterwards.
write_file(dir, file_path) ==
    [dir EXCEPT !.files =
        [ f \in DOMAIN dir.files \cup { file_path } |->
            IF f # file_path THEN dir.files[f]
            ELSE IF f \notin DOMAIN dir.files THEN "Untracked"
            ELSE IF dir.files[f] = "Committed" THEN "Modified"
            ELSE dir.files[f] ]]

\* RealGitOperations::init: git init
real_init(dir) == Outcome(Ok, [dir EXCEPT !.initialized = TRUE])

\* RealGitOperations::add_all: git add .
real_add_all(dir) ==
    IF ~dir.initialized
    THEN Outcome(Err(App(<<"git add failed">>)), dir)
    ELSE Outcome(Ok, [dir EXCEPT !.files =
            [ f \in DOMAIN dir.files |->
                IF dir.files[f] \in { "Untracked", "Modified" }
                THEN "Staged" ELSE dir.files[f] ]])

\* RealGitOperations::commit: git commit -m message
real_commit(dir, message) ==
    IF ~dir.initialized \/ \A f \in DOMAIN dir.files : dir.files[f] # "Staged"
    THEN Outcome(Err(App(<<"git commit failed">>)), dir)
    ELSE Outcome(Ok, [dir EXCEPT
            !.commits = Append(dir.commits, message),
            !.files = [ f \in DOMAIN dir.files |->
                          IF dir.files[f] = "Staged" THEN "Committed"
                          ELSE dir.files[f] ]])

\* The one path both backends are called on.
PairPath == "p"

\* What a call on the two backends leaves alone.
pairvars ==
    << pc, options, fetched, svn_logs, idx, result, calls, status_output,
       commit_messages, printed, records, stored, cli, config, last_op, file,
       threads >>

\* A new in-memory backend and an empty directory.
PairStart ==
    /\ pc = "pair"
    /\ options = DefaultOptions
    /\ fetched = <<>>
    /\ svn_logs = <<>>
    /\ idx = 0
    /\ result = NoResult
    /\ calls = <<>>
    /\ status_output = <<>>
    /\ commit_messages = <<>>
    /\ printed = <<>>
    /\ records = <<>>
    /\ stored = <<>>
    /\ cli = NoCli
    /\ config = create_config
    /\ last_op = NoOp
    /\ file = NoFile
    /\ repos = NoRepos
    /\ tree = [ p \in { PairPath } |-> Directory ]
    /\ git_op = NoOp
    /\ threads = NoThreads

\* A file is written in the directory and the in-memory backend told of
\* it with add_file_to_mock.
BothWriteFile ==
    /\ pc = "pair"
    /\ \E file_path \in GitFiles :
        LET table == get_or_create_repo(repos, PairPath)
        IN /\ repos' = update_repo(table, PairPath, add_file(table[PairPath], file_path))
           /\ tree' = [tree EXCEPT ![PairPath] = write_file(@, file_path)]
           /\ git_op' = [op |-> "add_file", path |-> PairPath, file |-> file_path]
    /\ UNCHANGED pairvars

\* init on both backends.
BothInit ==
    /\ pc = "pair"
    /\ LET table == get_or_create_repo(repos, PairPath)
           mock == init(table[PairPath])
           real == real_init(tree[PairPath])
       IN /\ repos' = IF mock.result = Ok THEN update_repo(table, PairPath, mock.repo)
                      ELSE table
          /\ tree' = [tree EXCEPT ![PairPath] = real.repo]
          /\ git_op' = [op |-> "init", path |-> PairPath,
                        mock |-> mock.result.tag, real |-> real.result.tag]
    /\ UNCHANGED pairvars

\* add_all on both backends.
BothAddAll ==
    /\ pc = "pair"
    /\ LET table == get_or_create_repo(repos, PairPath)
           mock == add_all(table[PairPath])
           real == real_add_all(tree[PairPath])
       IN /\ repos' = update_repo(table, PairPath, mock.repo)
          /\ tree' = [tree EXCEPT ![PairPath] = real.repo]
          /\ git_op' = [op |-> "add_all", path |-> PairPath,
                        mock |-> mock.result.tag, real |-> real.result.tag]
    /\ UNCHANGED pairvars

\* commit on both backends; the logs are capped at MaxCommits records.
BothCommit ==
    /\ pc = "pair"
    /\ \E message \in GitMessages :
        LET table == get_or_create_repo(repos, PairPath)
            mock == commit(table[PairPath], message)
            real == real_commit(tree[PairPath], message)
        IN /\ Len(table[PairPath].commits) < MaxCommits
           /\ Len(tree[PairPath].commits) < MaxCommits
           /\ repos' = update_repo(table, PairPath, mock.repo)
           /\ tree' = [tree EXCEPT ![PairPath] = real.repo]
           /\ git_op' = [op |-> "commit", path |-> PairPath, message |-> message,
                         mock |-> mock.result.tag, real |-> real.result.tag]
    /\ UNCHANGED pairvars

PairNext ==
    \/ BothWriteFile
    \/ BothInit
    \/ BothAddAll
    \/ BothCommit

\* Any sequence of init, add_all and commit calls made on both backends
\* for one path, with files written in between.
PairSpec == PairStart /\ [][PairNext]_vars

(***************************************************************************)
(* Two threads on clones of one MockGitOperations.  A call is two steps:   *)
(* get_or_create_repo hands out a clone of the repository under the lock,  *)
(* and the method runs on the clone, which update_repo then stores under   *)
(* the lock; the lock is free in between.                                  *)
(***************************************************************************)

Threads == { 1, 2 }

\* Calls one thread makes.
MaxThreadOps == 3

\* The path both threads work on, and the message they commit with.
SharedPath == "p"

SharedMessage == << "m" >>

\* The calls a thread makes, and what a call is given besides the path.
SharedOps == { "add_file", "init", "add_all", "commit" }

ArgsOf(op) == IF op = "add_file" THEN GitFiles ELSE { "-" }

\* A thread outside a call: the files its add_file_to_mock calls returned
\* Ok for, how many of its commit and init calls returned Ok, and how many
\* calls it made.
IdleThread ==
    [at |-> "idle", op |-> "none", arg |-> "-", repo |-> None,
     added |-> {}, commits |-> 0, inits |-> 0, done |-> 0]

\* The thread after a call returned.
Returned(thread) ==
    [thread EXCEPT !.at = "idle", !.op = "none", !.arg = "-", !.repo = None,
                   !.done = @ + 1]

\* What a step of a thread leaves alone.
threadvars ==
    << pc, options, fetched, svn_logs, idx, result, calls, status_output,
       commit_messages, printed, records, stored, cli, config, last_op, file,
       tree, git_op >>

\* MockGitOperations::new, cloned into two threads.
ThreadsStart ==
    /\ pc = "threads"
    /\ options = DefaultOptions
    /\ fetched = <<>>
    /\ svn_logs = <<>>
    /\ idx = 0
    /\ result = NoResult
    /\ calls = <<>>
    /\ status_output = <<>>
    /\ commit_messages = <<>>
    /\ printed = <<>>
    /\ records = <<>>
    /\ stored = <<>>
    /\ cli = NoCli
    /\ config = create_config
    /\ last_op = NoOp
    /\ file = NoFile
    /\ repos = NoRepos
    /\ tree = NoRepos
    /\ git_op = NoOp
    /\ threads = [ t \in Threads |-> IdleThread ]

\* The first statement of a call: get_or_create_repo gives the thread its
\* clone.
SharedGetOrCreate ==
    /\ pc = "threads"
    /\ \E t \in Threads, op \in SharedOps :
        \E arg \in ArgsOf(op) :
            /\ threads[t].at = "idle"
            /\ threads[t].done < MaxThreadOps
            /\ repos' = get_or_create_repo(repos, SharedPath)
            /\ threads' = [threads EXCEPT ![t] =
                              [@ EXCEPT !.at = "cloned", !.op = op, !.arg = arg,
                                        !.repo = repos'[SharedPath]]]
    /\ UNCHANGED threadvars

\* add_file_to_mock after its clone: add_file, update_repo.
SharedAddFile ==
    /\ pc = "threads"
    /\ \E t \in Threads :
        /\ threads[t].at = "cloned"
        /\ threads[t].op = "add_file"
        /\ repos' = update_repo(repos, SharedPath,
                                add_file(threads[t].repo, threads[t].arg))
        /\ threads' = [threads EXCEPT ![t] =
                          Returned([@ EXCEPT !.added = @ \cup { threads[t].arg }])]
    /\ UNCHANGED threadvars

\* init after its clone: init, update_repo when it succeeded.
SharedInit ==
    /\ pc = "threads"
    /\ \E t \in Threads :
        LET out == init(threads[t].repo)
        IN /\ threads[t].at = "cloned"
           /\ threads[t].op = "init"
           /\ repos' = IF out.result = Ok
                       THEN update_repo(repos, SharedPath, out.repo) ELSE repos
           /\ threads' = [threads EXCEPT ![t] =
                             Returned([@ EXCEPT !.inits =
                                          IF out.result = Ok THEN @ + 1 ELSE @])]
    /\ UNCHANGED threadvars

\* add_all after its clone: add_all, update_repo.
SharedAddAll ==
    /\ pc = "threads"
    /\ \E t \in Threads :
        LET out == add_all(threads[t].repo)
        IN /\ threads[t].at = "cloned"
           /\ threads[t].op = "add_all"
           /\ repos' = update_repo(repos, SharedPath, out.repo)
           /\ threads' = [threads EXCEPT ![t] = Returned(@)]
    /\ UNCHANGED threadvars

\* commit after its clone: commit, update_repo.
SharedCommit ==
    /\ pc = "threads"
    /\ \E t \in Threads :
        LET out == commit(threads[t].repo, SharedMessage)
        IN /\ threads[t].at = "cloned"
           /\ threads[t].op = "commit"
           /\ repos' = update_repo(repos, SharedPath, out.repo)
           /\ threads' = [threads EXCEPT ![t] =
                             Returned([@ EXCEPT !.commits =
                                          IF out.result = Ok THEN @ + 1 ELSE @])]
    /\ UNCHANGED threadvars

ThreadNext ==
    \/ SharedGetOrCreate
    \/ SharedAddFile
    \/ SharedInit
    \/ SharedAddAll
    \/ SharedCommit

\* Two threads making their calls on one path, in any interleaving of the
\* steps.
ThreadSpec == ThreadsStart /\ [][ThreadNext]_vars

(***************************************************************************)
(* main: a sync invocation (src/src/main.rs), its configuration resolved   *)
(* by select_or_create_config (src/src/interactor/helper.rs)               *)
(***************************************************************************)

\* Commands::Sync { svn_dir, git_dir, limit, dry_run } as the command line
\* can give it.
SyncCommands ==
    [ cmd : { "sync" },
      svn_dir : { None } \cup { Some(p) : p \in SvnDirs },
      git_dir : { None } \cup { Some(p) : p \in GitDirs },
      dry_run : BOOLEAN,
      limit : { o.limit : o \in Options } ]

\* What config.json holds when an invocation starts: nothing, or what
\* earlier invocations recorded.
MainStores ==
    { <<>>,
      add_record(<<>>, <<"s">>, <<"g">>, MaxTime),
      add_record(add_record(<<>>, <<"s">>, <<"g">>, 1),
                 <<"s">>, <<"s">>, MaxTime) }

\* What the operator types for the SVN directory.
TypedSvnDirs == SvnDirs

\* What the operator types for the Git directory: nothing, a space, a path.
TypedGitDirs == { <<>>, <<" ">> } \cup GitDirs

\* The errors select_history_record returns: the prompt's, or its own when
\* the selected text is no record's.
SelectFailures == InquireErrors \cup { App(<<"selected record not found">>) }

\* No configuration was resolved yet.
NoConfig == [resolved |-> FALSE]

\* main was started on a sync command; config.json is not read yet.
MainInit ==
    /\ pc = "main"
    /\ options = DefaultOptions
    /\ fetched = <<>>
    /\ svn_logs = <<>>
    /\ idx = 0
    /\ result = NoResult
    /\ calls = <<>>
    /\ status_output = <<>>
    /\ commit_messages = <<>>
    /\ printed = <<>>
    /\ records = <<>>
    /\ stored \in MainStores
    /\ cli \in SyncCommands
    /\ config = NoConfig
    /\ last_op = NoOp
    /\ BackendsIdle

\* What a step of main before the run leaves alone.
loopvars ==
    << options, fetched, svn_logs, idx, status_output, commit_messages,
       printed, cli, backends >>

\* HistoryManager::new(storage)?: the history is loaded.
MainLoad ==
    /\ pc = "main"
    /\ records' = stored
    /\ calls' = Append(calls, Call("load", <<>>, TRUE))
    /\ last_op' = [op |-> "load", result |-> Ok]
    /\ pc' = "resolve"
    /\ UNCHANGED << result, stored, config >>
    /\ UNCHANGED loopvars

\* HistoryManager::new(storage)? fails: main returns the error.
MainLoadErr ==
    /\ pc = "main"
    /\ \E e \in Failures("load") :
        /\ calls' = Append(calls, FailedCall("load", <<>>, e))
        /\ Return(Err(e))
    /\ UNCHANGED << records, stored, config, last_op >>
    /\ UNCHANGED loopvars

\* (Some(svn), Some(git)): both paths were given.
BothGiven == cli.svn_dir.some /\ cli.git_dir.some

\* Both paths given: SyncConfig::new(svn, git).
ResolveFromArgs ==
    /\ pc = "resolve"
    /\ BothGiven
    /\ config' = SyncConfig(cli.svn_dir.val, cli.git_dir.val)
    /\ pc' = "record"
    /\ UNCHANGED << result, calls, records, stored, last_op >>
    /\ UNCHANGED loopvars

\* ResolveFromHistory taken whenever the history is not empty, the paths
\* given or not.
ResolveFromHistoryFirst ==
    /\ pc = "resolve"
    /\ records # <<>>
    /\ \E selection \in 0..(Len(records) - 1) :
        /\ calls' = Append(calls, Call("select_history_record", selection, TRUE))
        /\ config' = to_sync_config(records[selection + 1])
    /\ pc' = "record"
    /\ UNCHANGED << result, records, stored, last_op >>
    /\ UNCHANGED loopvars

\* Not both paths given, history not empty: the record the operator selects.
ResolveFromHistory ==
    /\ pc = "resolve"
    /\ ~BothGiven
    /\ records # <<>>
    /\ \E selection \in 0..(Len(records) - 1) :
        /\ calls' = Append(calls, Call("select_history_record", selection, TRUE))
        /\ config' = to_sync_config(records[selection + 1])
    /\ pc' = "record"
    /\ UNCHANGED << result, records, stored, last_op >>
    /\ UNCHANGED loopvars

\* select_history_record fails: the ? returns its error.
ResolveSelectErr ==
    /\ pc = "resolve"
    /\ ~BothGiven
    /\ records # <<>>
    /\ \E e \in SelectFailures :
        /\ calls' = Append(calls, FailedCall("select_history_record", <<>>, e))
        /\ Return(Err(e))
    /\ UNCHANGED << records, stored, config, last_op >>
    /\ UNCHANGED loopvars

\* if git.is_empty() { git = svn.clone() }, with the test left out.
git_or_svn_KeepsEmpty(svn, git) == git

\* if git.is_empty() { git = svn.clone() }
git_or_svn(svn, git) == IF git = <<>> THEN svn ELSE git

\* Not both paths given, history empty: both paths are typed.
ResolveFromInput ==
    /\ pc = "resolve"
    /\ ~BothGiven
    /\ records = <<>>
    /\ \E svn \in TypedSvnDirs, git \in TypedGitDirs :
        /\ calls' = calls \o << Call("input_svn_dir", svn, TRUE),
                                Call("input_git_dir", git, TRUE) >>
        /\ config' = SyncConfig(PathBufFromStr(svn),
                                PathBufFromStr(git_or_svn(svn, git)))
    /\ pc' = "record"
    /\ UNCHANGED << result, records, stored, last_op >>
    /\ UNCHANGED loopvars

\* input_svn_dir fails: the ? returns its error.
ResolveInputSvnErr ==
    /\ pc = "resolve"
    /\ ~BothGiven
    /\ records = <<>>
    /\ \E e \in InquireErrors :
        /\ calls' = Append(calls, FailedCall("input_svn_dir", <<>>, e))
        /\ Return(Err(e))
    /\ UNCHANGED << records, stored, config, last_op >>
    /\ UNCHANGED loopvars

\* ResolveInputGitErr taking the SVN directory for the Git directory that
\* could not be read.
ResolveInputGitErrDefaults ==
    /\ pc = "resolve"
    /\ ~BothGiven
    /\ records = <<>>
    /\ \E svn \in TypedSvnDirs, e \in InquireErrors :
        /\ calls' = calls \o << Call("input_svn_dir", svn, TRUE),
                                FailedCall("input_git_dir", <<>>, e) >>
        /\ config' = SyncConfig(PathBufFromStr(svn), PathBufFromStr(svn))
    /\ pc' = "record"
    /\ UNCHANGED << result, records, stored, last_op >>
    /\ UNCHANGED loopvars

\* input_git_dir fails after the SVN directory was typed.
ResolveInputGitErr ==
    /\ pc = "resolve"
    /\ ~BothGiven
    /\ records = <<>>
    /\ \E svn \in TypedSvnDirs, e \in InquireErrors :
        /\ calls' = calls \o << Call("input_svn_dir", svn, TRUE),
                                FailedCall("input_git_dir", <<>>, e) >>
        /\ Return(Err(e))
    /\ UNCHANGED << records, stored, config, last_op >>
    /\ UNCHANGED loopvars

\* RecordConfigOk without the add and the save.
RecordConfigSkipped ==
    /\ pc = "record"
    /\ pc' = "idle"
    /\ UNCHANGED << result, calls, records, stored, config, last_op >>
    /\ UNCHANGED loopvars

\* history.add_record(svn_dir, git_dir); history.save()?; Ok(config): the
\* tool is built and about to run.
RecordConfigOk ==
    /\ pc = "record"
    /\ \E at \in Times :
        /\ records' = add_record(records, config.svn_dir, config.git_dir, at)
        /\ last_op' = [op |-> "add", svn_path |-> config.svn_dir,
                       git_path |-> config.git_dir, at |-> at,
                       before |-> records]
    /\ stored' = records'
    /\ calls' = Append(calls, Call("save", records', TRUE))
    /\ pc' = "idle"
    /\ UNCHANGED << result, config >>
    /\ UNCHANGED loopvars

\* history.save()? fails after the add: main returns the error.
RecordConfigSaveErr ==
    /\ pc = "record"
    /\ \E at \in Times :
        /\ records' = add_record(records, config.svn_dir, config.git_dir, at)
        /\ last_op' = [op |-> "add", svn_path |-> config.svn_dir,
                       git_path |-> config.git_dir, at |-> at,
                       before |-> records]
    /\ \E e \in Failures("save") :
        /\ calls' = Append(calls, FailedCall("save", records', e))
        /\ Return(Err(e))
    /\ UNCHANGED << stored, config >>
    /\ UNCHANGED loopvars

MainNext ==
    \/ MainLoad
    \/ MainLoadErr
    \/ ResolveFromArgs
    \/ ResolveFromHistory
    \/ ResolveSelectErr
    \/ ResolveFromInput
    \/ ResolveInputSvnErr
    \/ ResolveInputGitErr
    \/ RecordConfigOk
    \/ RecordConfigSaveErr
    \/ Next

\* One invocation of the sync command, from the start of main to its return.
MainSpec == MainInit /\ [][MainNext]_vars

(***************************************************************************)
(* Properties of a run                                                     *)
(***************************************************************************)

IsPrefix(a, b) == Len(a) <= Len(b) /\ a = SubSeq(b, 1, Len(a))

\* The revisions of a log, in its order.
Versions(logs) == [i \in 1..Len(logs) |-> logs[i].version]

\* The commit messages a log asks for: "SVN: " before each entry's message.
SvnMessages(logs) ==
    [i \in 1..Len(logs) |-> <<"S", "V", "N", ":", " ">> \o logs[i].message]

\* The operator accepted the confirmation.
Confirmed == \E i \in DOMAIN calls : calls[i].op = "confirm_sync" /\ calls[i].ok

\* The operator declined the confirmation.
Declined == \E i \in DOMAIN calls : calls[i].op = "confirm_sync" /\ ~calls[i].ok

\* get_logs returned a log.
Fetched == calls # <<>> /\ calls[1].op = "get_logs" /\ calls[1].ok

\* min(N, L), and L when no limit is given.
Cap ==
    IF options.limit.some THEN Min(options.limit.val, Len(fetched)) ELSE Len(fetched)

\* C1: in a confirmed run that is not a dry run, update_to_rev is called for
\* the entries in the order get_logs returned them, once each, the i-th
\* commit carries "SVN: " and the i-th entry's message, updates and commits
\* advance in step, and a run in which everything succeeded has made one
\* update and one commit for every pending entry.
C1_RevisionsAndCommitsInOrder ==
    /\ IsPrefix(update_calls, Versions(fetched))
    /\ IsPrefix(commit_messages, SvnMessages(fetched))
    /\ Len(commit_messages) <= Len(update_calls)
    /\ Len(update_calls) <= Len(commit_messages) + 1
    /\ (Confirmed /\ result = Ok) =>
        /\ update_calls = Versions(svn_logs)
        /\ commit_messages = SvnMessages(svn_logs)

\* A successful run of at least two entries with different messages.
C1_Witness ==
    /\ Confirmed
    /\ result = Ok
    /\ Len(commit_messages) >= 2
    /\ commit_messages[1] # commit_messages[2]
    /\ Len(update_calls) = Len(svn_logs)

\* C2: the pending entries are the first min(N, L) of the fetched log (all L
\* without a limit); no update or commit is made beyond that cap, and a
\* confirmed run that succeeds has updated to and committed exactly those
\* entries, in their order.
C2_ProcessesFirstMinEntries ==
    /\ Fetched => svn_logs = SubSeq(fetched, 1, Cap)
    /\ Len(update_calls) <= Cap
    /\ Len(commit_messages) <= Cap
    /\ update_calls = Versions(SubSeq(fetched, 1, Len(update_calls)))
    /\ (Confirmed /\ result = Ok) =>
        /\ update_calls = Versions(SubSeq(fetched, 1, Cap))
        /\ commit_messages = SvnMessages(SubSeq(fetched, 1, Cap))

\* A successful run whose limit cut a longer log to two entries.
C2_Witness ==
    /\ Confirmed
    /\ result = Ok
    /\ options.limit.some
    /\ options.limit.val = 2
    /\ Len(fetched) > 2
    /\ Len(commit_messages) = 2

\* C3: a dry run with pending entries returns success having called nothing
\* but get_logs: no update_to_rev, status, add_all or commit, no confirmation,
\* no save of the history; it prints one preview line per pending entry.
C3_DryRunOnlyPreviews ==
    (options.dry_run /\ svn_logs # <<>>) =>
        /\ pc = "done"
        /\ result = Ok
        /\ \A i \in DOMAIN calls : calls[i].op = "get_logs"
        /\ commit_messages = <<>>
        /\ Len(printed) = Len(svn_logs)
        /\ stored = records

\* A dry run over two pending entries has returned.
C3_Witness ==
    /\ options.dry_run
    /\ Len(svn_logs) >= 2
    /\ result = Ok
    /\ Len(printed) = Len(svn_logs)

\* The last call made on a collaborator.
LastCall == calls[Len(calls)]

\* Some line of the text starts with the two characters of an unmerged code.
HasConflictLine(text) ==
    \E i \in DOMAIN lines(text) :
        /\ Len(lines(text)[i]) >= 2
        /\ <<lines(text)[i][1], lines(text)[i][2]>> \in UnmergedCodes

\* The operations of the loop body.
LoopOps == {"update_to_rev", "status", "add_all", "commit"}

\* C4: when the status text returned after an update holds a line whose first
\* two characters are DD, AU, UD, UA, DU, AA or UU, the run has returned the
\* conflict error of that entry, the status call is the last call made, and
\* add_all and commit were called for the earlier entries only.
C4_ConflictStopsBeforeStaging ==
    HasConflictLine(status_output) =>
        LET k == Len(update_calls)
        IN /\ pc = "done"
           /\ result = Err(StepError(k - 1, fetched[k], ConflictError))
           /\ LastCall.op = "status"
           /\ status_calls = k
           /\ add_all_calls = k - 1
           /\ Len(CallsOf("commit")) = k - 1
           /\ Len(commit_messages) = k - 1

\* The second entry's status lists the conflict on its second line.
C4_Witness ==
    /\ HasConflictLine(status_output)
    /\ ~HasConflictLine(SubSeq(status_output, 1, 4))
    /\ Len(update_calls) = 2
    /\ Len(commit_messages) = 1
    /\ result.tag = "Err"

\* C5: when the run has failed inside the loop at entry k, the commits
\* recorded are exactly those of entries 1..k-1 in order, the updates are
\* those of entries 1..k, and no status, add_all or commit call exists
\* beyond entry k.
C5_EarlierCommitsKept ==
    LET k == Len(update_calls)
    IN (result.tag \in {"Err", "Panic"} /\ k > 0 /\ save_calls = 0) =>
        /\ pc = "done"
        /\ commit_messages = SvnMessages(SubSeq(fetched, 1, k - 1))
        /\ update_calls = Versions(SubSeq(fetched, 1, k))
        /\ status_calls <= k
        /\ add_all_calls <= k
        /\ Len(CallsOf("commit")) <= k
        /\ \A i \in DOMAIN calls :
            (calls[i].op \in LoopOps /\ ~calls[i].ok) => i = Len(calls)

\* The commit of the third entry failed after two commits were made.
C5_Witness ==
    /\ result.tag = "Err"
    /\ save_calls = 0
    /\ Len(update_calls) = 3
    /\ Len(commit_messages) = 2
    /\ LastCall.op = "commit"

\* C6: a failed update_to_rev is the last call of the run, which has returned
\* an error; no revision is updated to twice, and status, add_all and commit
\* were called for the entries before the failing one only.
C6_UpdateFailureEndsRun ==
    /\ \A i \in DOMAIN calls :
        (calls[i].op = "update_to_rev" /\ ~calls[i].ok) =>
            /\ i = Len(calls)
            /\ pc = "done"
            /\ result.tag = "Err"
            /\ status_calls = Len(update_calls) - 1
            /\ add_all_calls = Len(update_calls) - 1
            /\ Len(CallsOf("commit")) = Len(update_calls) - 1
    /\ \A i, j \in DOMAIN update_calls :
        i # j => update_calls[i] # update_calls[j]

\* The update to the second entry's revision failed.
C6_Witness ==
    /\ calls # <<>>
    /\ LastCall.op = "update_to_rev"
    /\ ~LastCall.ok
    /\ Len(update_calls) = 2
    /\ Len(svn_logs) = 3

\* C7: when the truncated log is empty the run has returned success with
\* get_logs as its only call: no confirmation, no update_to_rev, status,
\* add_all or commit, no save, and the history as it was, with or without
\* dry_run.
C7_EmptyPendingDoesNothing ==
    (Fetched /\ svn_logs = <<>>) =>
        /\ pc = "done"
        /\ result = Ok
        /\ Len(calls) = 1
        /\ commit_messages = <<>>
        /\ printed = <<>>
        /\ records \in InitRecords
        /\ stored = records

\* A limit of 0 emptied a log that had entries, in a dry run.
C7_Witness ==
    /\ Fetched
    /\ svn_logs = <<>>
    /\ fetched # <<>>
    /\ options.limit.some
    /\ options.dry_run
    /\ result = Ok

\* C8: when the operator declined, the run has returned success with get_logs
\* and the confirmation as its only calls: no update_to_rev, status, add_all
\* or commit, and no save of the history.
C8_DeclineDoesNothing ==
    Declined =>
        /\ pc = "done"
        /\ result = Ok
        /\ Len(calls) = 2
        /\ update_calls = <<>>
        /\ status_calls = 0
        /\ add_all_calls = 0
        /\ CallsOf("commit") = <<>>
        /\ commit_messages = <<>>
        /\ save_calls = 0
        /\ stored = records

\* The operator declined a pending log of two entries.
C8_Witness ==
    /\ Declined
    /\ Len(svn_logs) >= 2
    /\ result = Ok

\* C9: the history is saved at most once; the save is reached only in a
\* confirmed run after every pending entry was committed and every earlier
\* call succeeded; it is the last call and its result is the run's; and a
\* run that committed every pending entry does not return without it.
C9_SavedOnceAfterLastCommit ==
    /\ save_calls <= 1
    /\ (pc = "save" \/ save_calls = 1) =>
        /\ Confirmed
        /\ svn_logs # <<>>
        /\ commit_messages = SvnMessages(svn_logs)
        /\ \A i \in DOMAIN calls : calls[i].op # "save" => calls[i].ok
        /\ ~HasConflictLine(status_output)
    /\ save_calls = 1 =>
        /\ LastCall.op = "save"
        /\ pc = "done"
        /\ result = IF LastCall.ok THEN Ok ELSE Err(LastCall.err)
    /\ (result # NoResult /\ Confirmed /\ Len(commit_messages) = Len(svn_logs)) =>
        save_calls = 1

\* The save after two commits failed, and its error is the run's.
C9_Witness ==
    /\ save_calls = 1
    /\ ~LastCall.ok
    /\ Len(commit_messages) >= 2
    /\ result.tag = "Err"

\* C10: a failed update_to_rev, status, add_all or commit call, and a
\* conflict found in the status text, make the run return an error whose text
\* holds the step (the number of commits made plus one), the revision of the
\* entry at that step and the cause.
C10_LoopFailuresCarryStepAndRevision ==
    LET k == Len(commit_messages) + 1
        Wrapped(cause) ==
            Err(App(<<"F1:sync of log no. ">> \o Digits(k)
                    \o <<"F2: failed (SVN r">> \o fetched[k].version
                    \o <<"F3:): ">> \o cause))
    IN /\ \A i \in DOMAIN calls :
            (calls[i].op \in LoopOps /\ ~calls[i].ok) =>
                result = Wrapped(Display(calls[i].err))
       /\ HasConflictLine(status_output) =>
            result = Wrapped(<<"Application error: ",
                               "Git conflict state detected (UU/AA/DU), sync stopped">>)

\* add_all failed at the third entry, whose revision has two digits.
C10_Witness ==
    /\ calls # <<>>
    /\ LastCall.op = "add_all"
    /\ ~LastCall.ok
    /\ Len(commit_messages) = 2
    /\ Len(fetched[3].version) = 2
    /\ result.tag = "Err"

\* The prompt of the confirmation failed.
PromptFailed ==
    \E i \in DOMAIN calls :
        calls[i].op = "confirm_sync" /\ calls[i].prompt.tag = "Err"

\* C11: when the prompt of the confirmation failed, the run has returned
\* success, not the error of the prompt, and made no update_to_rev, status,
\* add_all or commit call.
C11_PromptFailureIsDecline ==
    PromptFailed =>
        /\ pc = "done"
        /\ result = Ok
        /\ ~Confirmed
        /\ update_calls = <<>>
        /\ status_calls = 0
        /\ add_all_calls = 0
        /\ CallsOf("commit") = <<>>
        /\ commit_messages = <<>>

\* The prompt failed on a pending log of two entries, and the run returned.
C11_Witness ==
    /\ PromptFailed
    /\ Len(svn_logs) >= 2
    /\ pc = "done"

(***************************************************************************)
(* Properties of the history manager                                       *)
(***************************************************************************)

\* r is a record of exactly this pair of paths.
SamePair(r, svn_path, git_path) ==
    r.svn_path = svn_path /\ r.git_path = git_path

\* No two records of recs have the same pair of paths, be it as written or
\* as PathBuf compares them.
NoPairTwice(recs) ==
    \A i, j \in DOMAIN recs :
        i # j => ~path_eq(recs[i], recs[j].svn_path, recs[j].git_path)
                 /\ ~SamePair(recs[i], recs[j].svn_path, recs[j].git_path)

\* recs is in ascending order of last_used.
Ascending(recs) ==
    \A i, j \in DOMAIN recs : i < j => recs[i].last_used <= recs[j].last_used

\* The last operation was add_record.
Added == last_op.op = "add"

\* The last operation was add_record for a pair the manager had a record of.
ReAdded ==
    /\ Added
    /\ \E i \in DOMAIN last_op.before :
        SamePair(last_op.before[i], last_op.svn_path, last_op.git_path)

\* C17: whatever was loaded, added and removed, neither the manager nor the
\* storage holds two records with the same pair of paths.
C17_OneRecordPerPair ==
    /\ NoPairTwice(records)
    /\ NoPairTwice(stored)

\* A pair was added again while the manager held a record of another pair,
\* and the records were saved.
C17_Witness ==
    /\ ReAdded
    /\ Len(last_op.before) >= 2
    /\ Len(stored) >= 2

\* C18: whatever was loaded, added and removed, the records of the manager
\* and of the storage are in ascending order of last_used.
C18_AscendingLastUsed ==
    /\ Ascending(records)
    /\ Ascending(stored)

\* A record was added with a clock reading earlier than the last_used of a
\* record the manager kept.
C18_Witness ==
    /\ Added
    /\ \E i \in DOMAIN last_op.before :
        /\ ~path_eq(last_op.before[i], last_op.svn_path, last_op.git_path)
        /\ last_op.before[i].last_used > last_op.at

\* C19: after add_record for a pair the manager had a record of, there are
\* as many records as before, and every record of before is still there
\* with its id and its paths, and with its last_used unless it is the
\* record of the added pair.
C19_ReAddChangesOnlyLastUsed ==
    ReAdded =>
        /\ Len(records) = Len(last_op.before)
        /\ \A i \in DOMAIN last_op.before :
            LET was == last_op.before[i] IN
            \E j \in DOMAIN records :
                /\ records[j].id = was.id
                /\ SamePair(records[j], was.svn_path, was.git_path)
                /\ \/ SamePair(was, last_op.svn_path, last_op.git_path)
                   \/ records[j].last_used = was.last_used

\* The position of the record of the added pair.
AddedAt ==
    CHOOSE k \in DOMAIN records :
        SamePair(records[k], last_op.svn_path, last_op.git_path)

\* C20 as stated: after add_record the record of the added pair is the last
\* one.
C20_AddedRecordIsLast ==
    Added => SamePair(records[Len(records)], last_op.svn_path, last_op.git_path)

\* C20: after add_record there is exactly one record of the added pair; its
\* last_used is the clock reading of the add; every record before it has a
\* last_used that is not later and every record after it has a later one;
\* so it is the last record when no record kept has a later last_used.
C20_AddedRecordPlacedByClock ==
    Added =>
        /\ Cardinality({ k \in DOMAIN records :
               path_eq(records[k], last_op.svn_path, last_op.git_path) }) = 1
        /\ records[AddedAt].last_used = last_op.at
        /\ \A k \in DOMAIN records :
            /\ k < AddedAt => records[k].last_used <= last_op.at
            /\ k > AddedAt => records[k].last_used > last_op.at
        /\ (\A i \in DOMAIN last_op.before :
                last_op.before[i].last_used <= last_op.at)
           => AddedAt = Len(records)

\* A pair was added again at a clock reading equal to the last_used of
\* another record, and its record is the last of two.
C20_Witness ==
    /\ ReAdded
    /\ Len(records) >= 2
    /\ AddedAt = Len(records)
    /\ records[1].last_used = last_op.at

(***************************************************************************)
(* Properties of a sync invocation                                         *)
(***************************************************************************)

\* The calls that change the SVN working copy or the Git repository.
MutatingOps == {"update_to_rev", "add_all", "commit"}

\* The prompts of configuration resolution.
ResolvePrompts == {"select_history_record", "input_svn_dir", "input_git_dir"}

\* The positions of the calls of op in the call log.
PositionsOf(op) == { i \in DOMAIN calls : calls[i].op = op }

\* The records the manager held when resolution started.
Loaded == IF Added THEN last_op.before ELSE records

\* C12: no step of an invocation with --dry-run changes what the storage
\* holds or the commits of the Git side, or calls update_to_rev, add_all or
\* commit.
C12_DryRunInvocationMutatesNothing ==
    [][ (cli # NoCli /\ cli.dry_run) =>
            /\ stored' = stored
            /\ commit_messages' = commit_messages
            /\ \A i \in DOMAIN calls' :
                i > Len(calls) => calls'[i].op \notin MutatingOps ]_vars

\* The run is about to start or has started.
Started == pc = "idle" \/ PositionsOf("get_logs") # {}

\* C13: when the run is about to start or has started, the configuration
\* is resolved, and the call log holds a save that succeeded, that wrote a
\* record of the configuration's pair, and that comes before get_logs; and
\* when the run is about to start the storage holds what was saved.
C13_SavedBeforeFetch ==
    Started =>
        /\ config # NoConfig
        /\ \E j \in PositionsOf("save") :
            /\ calls[j].ok
            /\ \E k \in DOMAIN calls[j].arg :
                SamePair(calls[j].arg[k], config.svn_dir, config.git_dir)
            /\ \A i \in PositionsOf("get_logs") : j < i
            /\ pc = "idle" => stored = calls[j].arg /\ records = stored

\* The paths were typed, the history was saved and the log then fetched.
C13_Witness ==
    /\ PositionsOf("input_git_dir") # {}
    /\ PositionsOf("get_logs") # {}
    /\ stored # <<>>

\* C14: with both paths given, no prompt of resolution is called, and the
\* configuration, once resolved, holds the two paths as given.
C14_GivenPathsUsedWithoutPrompt ==
    (cli # NoCli /\ BothGiven) =>
        /\ \A op \in ResolvePrompts : PositionsOf(op) = {}
        /\ config # NoConfig =>
            config = SyncConfig(cli.svn_dir.val, cli.git_dir.val)

\* Both paths were given to a history that held two records, and the
\* configuration was recorded.
C14_Witness ==
    /\ BothGiven
    /\ Added
    /\ Len(last_op.before) >= 2
    /\ pc = "idle"

\* C15: with not both paths given, a resolved configuration is, when the
\* history is not empty, the pair of the record at the index the selection
\* returned, no path being asked for; and when the history is empty, the
\* SVN directory typed and the Git directory typed, or the SVN directory
\* when the Git directory typed is the empty text, no selection being asked
\* for.
C15_SelectedOrTyped ==
    (cli # NoCli /\ ~BothGiven /\ config # NoConfig) =>
        IF Loaded # <<>>
        THEN /\ PositionsOf("input_svn_dir") = {}
             /\ PositionsOf("input_git_dir") = {}
             /\ \E i \in PositionsOf("select_history_record") :
                 /\ calls[i].ok
                 /\ config = to_sync_config(Loaded[calls[i].arg + 1])
        ELSE /\ PositionsOf("select_history_record") = {}
             /\ \E i \in PositionsOf("input_svn_dir"),
                   j \in PositionsOf("input_git_dir") :
                 /\ i < j
                 /\ calls[i].ok /\ calls[j].ok
                 /\ config.svn_dir = calls[i].arg
                 /\ config.git_dir =
                      IF calls[j].arg = <<>> THEN calls[i].arg ELSE calls[j].arg

\* The Git directory was left empty and the configuration holds the SVN
\* directory for both.
C15_Witness ==
    /\ \E j \in PositionsOf("input_git_dir") : calls[j].ok /\ calls[j].arg = <<>>
    /\ config # NoConfig
    /\ config.git_dir = config.svn_dir
    /\ pc = "idle"

\* A prompt of resolution failed.
ResolvePromptFailed ==
    \E i \in DOMAIN calls : calls[i].op \in ResolvePrompts /\ ~calls[i].ok

\* C16: when a prompt of resolution failed, main has returned the error of
\* the prompt, no configuration is resolved, the manager and the storage
\* hold what was loaded, and there was no add, no save and no get_logs.
C16_PromptFailureLeavesHistory ==
    (cli # NoCli /\ ResolvePromptFailed) =>
        /\ pc = "done"
        /\ result = Err(LastCall.err)
        /\ LastCall.op \in ResolvePrompts
        /\ config = NoConfig
        /\ last_op = [op |-> "load", result |-> Ok]
        /\ records = stored
        /\ PositionsOf("save") = {}
        /\ PositionsOf("get_logs") = {}

\* The Git directory could not be read after the SVN directory was typed.
C16_Witness ==
    /\ \E i \in PositionsOf("input_git_dir") : ~calls[i].ok
    /\ PositionsOf("input_svn_dir") # {}
    /\ pc = "done"

(***************************************************************************)
(* Properties of remove_record, under RemoveSpec.                          *)
(***************************************************************************)

\* The list without the element at the zero-based position index.
Without(recs, index) ==
    [ k \in 1..(Len(recs) - 1) |-> IF k <= index THEN recs[k] ELSE recs[k + 1] ]

\* C21: remove_record with an index at or past the length returns an
\* application error and changes neither the records nor the storage; with
\* an index below the length the records become the earlier ones without
\* the record at that position, the others in their order, and the storage
\* is written at once: it holds the new records when the call succeeds, and
\* the call returns the save's error when the write fails.
C21_RemoveChecksBoundsAndSaves ==
    [][ last_op'.op = "remove" =>
          IF last_op'.index >= Len(records)
          THEN /\ last_op'.result.tag = "Err"
               /\ last_op'.result.err.kind = "App"
               /\ records' = records
               /\ stored' = stored
          ELSE /\ records' = Without(records, last_op'.index)
               /\ \/ last_op'.result = Ok /\ stored' = records'
                  \/ /\ last_op'.result \in { Err(e) : e \in Failures("save") }
                     /\ stored' = stored ]_vars

\* A record was removed from between two others and the rest saved.
C21_Witness ==
    /\ last_op.op = "remove"
    /\ last_op.index = 1
    /\ last_op.result = Ok
    /\ Len(records) = 2
    /\ stored = records

(***************************************************************************)
(* Properties of DiskStorage, under DiskSpec.                              *)
(***************************************************************************)

\* C22: a load that follows a successful save(records) on the same storage
\* does not fail on the document and, when the file can be read, returns
\* exactly the list that was saved: the same records with the same fields
\* in the same order, whatever the file held before the save.
C22_SaveThenLoadRoundTrips ==
    (last_op.op = "load" /\ last_op.saved.some) =>
        /\ last_op.result.tag = "Err" => last_op.result.err.kind = "Io"
        /\ last_op.result = Ok => last_op.loaded = last_op.saved.val

\* Two records whose paths need escapes and whose time stamps have a
\* fraction were saved over an earlier file and loaded again.
C22_Witness ==
    /\ last_op.op = "load"
    /\ last_op.saved.some
    /\ last_op.result = Ok
    /\ Len(last_op.loaded) = 2
    /\ \E i \in 1..Len(last_op.loaded[1].svn_path) : last_op.loaded[1].svn_path[i] = "\\"
    /\ last_op.loaded[1].last_used.nanos # 0
    /\ last_op.loaded[2].id > 9

(***************************************************************************)
(* Properties of the in-memory Git backend, under GitSpec.                 *)
(***************************************************************************)

\* The init calls on a path that succeeded so far.
InitSuccesses(path) ==
    { i \in 1..Len(calls) : calls[i].op = "init" /\ calls[i].arg = path }

\* C23: on the in-memory backend init succeeds at most once per path over
\* any sequence of calls: an init that succeeds is the only successful one
\* of its path, and an init fails only when an earlier init of that path
\* succeeded.
C23_InitSucceedsOncePerPath ==
    /\ \A path \in GitPaths : Cardinality(InitSuccesses(path)) <= 1
    /\ git_op.op = "init" =>
          /\ git_op.result \in { Ok, Err(App(<<"already initialized">>)) }
          /\ InitSuccesses(git_op.path) # {}
          /\ git_op.result = Ok =>
                InitSuccesses(git_op.path) = { Len(calls) }
          /\ repos[git_op.path].initialized

\* Both paths were initialized and a further init failed.
C23_Witness ==
    /\ git_op.op = "init"
    /\ git_op.result.tag = "Err"
    /\ \A path \in GitPaths : Cardinality(InitSuccesses(path)) = 1

\* The repository a call finds at a path: the one of the table, or a new
\* one when the path is not known.
Found(path) == IF path \in DOMAIN repos THEN repos[path] ELSE MockGitRepo(path)

\* The files of a repository that are in one of the given states.
FilesIn(repo, states) == { f \in DOMAIN repo.files : repo.files[f] \in states }

\* C24: on the in-memory backend add_all fails on a repository that is not
\* initialized and leaves it as it is; on an initialized one it succeeds,
\* every untracked or modified file becomes staged, every staged or
\* committed file keeps its state, no file appears or disappears, and the
\* commit log is unchanged.
C24_AddAllStagesPending ==
    [][ git_op'.op = "add_all" =>
          LET before == Found(git_op'.path)
              after == repos'[git_op'.path]
          IN IF ~before.initialized
             THEN git_op'.result.tag = "Err" /\ after = before
             ELSE /\ git_op'.result = Ok
                  /\ DOMAIN after.files = DOMAIN before.files
                  /\ \A f \in DOMAIN before.files :
                        after.files[f] =
                            IF before.files[f] \in { "Untracked", "Modified" }
                            THEN "Staged" ELSE before.files[f]
                  /\ after.commits = before.commits
                  /\ after.initialized ]_vars

\* add_all succeeded on a repository with a commit, leaving one file
\* staged next to a committed one.
C24_Witness ==
    /\ git_op.op = "add_all"
    /\ git_op.result = Ok
    /\ FilesIn(repos[git_op.path], { "Staged" }) # {}
    /\ FilesIn(repos[git_op.path], { "Committed" }) # {}
    /\ repos[git_op.path].commits # <<>>

\* C25: on the in-memory backend commit fails, changing nothing, when the
\* repository is not initialized or has no staged file; otherwise it
\* succeeds, the staged files and only they become committed, and the log
\* grows by one record at its end holding the message and exactly those
\* files.  No commit record of any repository has an empty file list.
C25_CommitRecordsStagedFiles ==
    /\ [](\A path \in DOMAIN repos : \A i \in 1..Len(repos[path].commits) :
             repos[path].commits[i].files # {})
    /\ [][ git_op'.op = "commit" =>
             LET before == Found(git_op'.path)
                 after == repos'[git_op'.path]
                 staged == FilesIn(before, { "Staged" })
             IN IF ~before.initialized \/ staged = {}
                THEN git_op'.result.tag = "Err" /\ after = before
                ELSE /\ git_op'.result = Ok
                     /\ DOMAIN after.files = DOMAIN before.files
                     /\ \A f \in DOMAIN before.files :
                           after.files[f] =
                               IF f \in staged THEN "Committed" ELSE before.files[f]
                     /\ Len(after.commits) = Len(before.commits) + 1
                     /\ SubSeq(after.commits, 1, Len(before.commits)) = before.commits
                     /\ after.commits[Len(after.commits)].message = git_op'.message
                     /\ after.commits[Len(after.commits)].files = staged ]_vars

\* A commit succeeded that took one file and left another one pending.
C25_Witness ==
    /\ git_op.op = "commit"
    /\ git_op.result = Ok
    /\ LET repo == repos[git_op.path]
       IN /\ Len(repo.commits) = 2
          /\ Cardinality(repo.commits[2].files) = 1
          /\ FilesIn(repo, { "Untracked" }) # {}

\* C27: on the in-memory backend is_clean answers true exactly when no
\* file of the repository is untracked, staged or modified.
C27_CleanIffNothingPending ==
    git_op.op = "is_clean" =>
        /\ git_op.result = Ok
        /\ git_op.clean =
              (FilesIn(repos[git_op.path], { "Untracked", "Staged", "Modified" }) = {})

\* is_clean answered true for a repository whose files are all committed.
C27_Witness ==
    /\ git_op.op = "is_clean"
    /\ git_op.clean
    /\ FilesIn(repos[git_op.path], { "Committed" }) = GitFiles

\* The commit a log line stands for: its hash, a blank, its message.
LogLine(c) == c.hash \o << " " >> \o c.message

\* C26: on the in-memory backend log(path, count) returns one line per
\* commit for the min(count, total) most recent commits, all of them when
\* count is unset, the most recent first.
C26_LogOneLinePerCommit ==
    git_op.op = "log" =>
        LET commits == repos[git_op.path].commits
            total == Len(commits)
            shown == IF git_op.count.some THEN Min(git_op.count.val, total) ELSE total
            ls == lines(git_op.output)
        IN /\ Len(ls) = shown
           /\ \A k \in 1..shown : ls[k] = LogLine(commits[total + 1 - k])

\* The lines of a status text that begin with a two-character code.
LinesWith(text, code) ==
    { k \in 1..Len(lines(text)) : IsPrefix(code, lines(text)[k]) }

\* C28: status(path) returns one line per file that is not committed, a
\* line for an untracked file starting with ??, and the empty string when
\* no file is pending.
C28_StatusOneLinePerPendingFile ==
    git_op.op = "status" =>
        LET repo == repos[git_op.path]
        IN /\ Len(lines(git_op.output))
                 = Cardinality(FilesIn(repo, { "Untracked", "Staged", "Modified" }))
           /\ Cardinality(LinesWith(git_op.output, << "?", "?" >>))
                 = Cardinality(FilesIn(repo, { "Untracked" }))
           /\ FilesIn(repo, { "Untracked", "Staged", "Modified" }) = {}
                 => git_op.output = <<>>

\* part occurs in text.
Occurs(part, text) ==
    \E k \in 0..(Len(text) - Len(part)) : SubSeq(text, k + 1, k + Len(part)) = part

C30_BackendsAgreeOnOutcome ==
    git_op.op \in { "init", "add_all", "commit" } => git_op.real = git_op.mock

(***************************************************************************)
(* Order of the calls of a run, under Spec.                                *)
(***************************************************************************)

\* The call at position i is op and succeeded.
Succeeded(i, op) == i \in DOMAIN calls /\ calls[i].op = op /\ calls[i].ok

\* The number of the entry the update_to_rev call at position i is for.
EntryOf(i) == Cardinality({ j \in PositionsOf("update_to_rev") : j <= i })

\* C31: get_logs is called once and is the first call of the run; status
\* is called only directly after an update_to_rev that succeeded, add_all
\* only directly after a status that succeeded, commit only directly after
\* an add_all that succeeded; update_to_rev is called only directly after
\* the accepted confirmation, for the first entry, or directly after the
\* commit of the entry before, which succeeded.
C31_CallsOfAnEntryInOrder ==
    /\ Cardinality(PositionsOf("get_logs")) <= 1
    /\ calls # <<>> => calls[1].op = "get_logs"
    /\ \A i \in DOMAIN calls :
        /\ calls[i].op = "status" => Succeeded(i - 1, "update_to_rev")
        /\ calls[i].op = "add_all" => Succeeded(i - 1, "status")
        /\ calls[i].op = "commit" => Succeeded(i - 1, "add_all")
        /\ calls[i].op = "update_to_rev" =>
              /\ calls[i].arg = svn_logs[EntryOf(i)].version
              /\ IF EntryOf(i) = 1
                 THEN Succeeded(i - 1, "confirm_sync")
                 ELSE /\ Succeeded(i - 1, "commit")
                      /\ calls[i - 1].arg = CommitMessage(svn_logs[EntryOf(i) - 1])

\* A confirmed run went through two entries and saved.
C31_Witness ==
    /\ Confirmed
    /\ result = Ok
    /\ Len(svn_logs) = 2
    /\ Len(calls) = 11
    /\ calls[Len(calls)].op = "save"

\* C32: confirm_sync is called at most once in a run, never in a dry run
\* or with nothing pending; in a run that is not a dry run and has pending
\* entries it has been called exactly once as soon as the run is past the
\* confirmation, every update_to_rev call comes after it, and it is given
\* the pending sequence, the first min(N, L) fetched entries, which are the
\* entries an accepted run that succeeds has updated to and committed.
C32_ConfirmedOnceWithPendingEntries ==
    /\ Cardinality(PositionsOf("confirm_sync")) <= 1
    /\ (options.dry_run \/ svn_logs = <<>>) => PositionsOf("confirm_sync") = {}
    /\ (Fetched /\ ~options.dry_run /\ svn_logs # <<>> /\ pc # "confirm") =>
          Cardinality(PositionsOf("confirm_sync")) = 1
    /\ \A i \in PositionsOf("update_to_rev") :
          \E j \in PositionsOf("confirm_sync") : j < i
    /\ \A j \in PositionsOf("confirm_sync") :
          /\ calls[j].arg = SubSeq(fetched, 1, Cap)
          /\ calls[j].arg # <<>>
          /\ (calls[j].ok /\ result = Ok) =>
                /\ update_calls = Versions(calls[j].arg)
                /\ commit_messages = SvnMessages(calls[j].arg)

\* An accepted run whose limit cut the log was shown the two entries it
\* then processed.
C32_Witness ==
    /\ result = Ok
    /\ Len(fetched) > 2
    /\ \E j \in PositionsOf("confirm_sync") :
          calls[j].ok /\ Len(calls[j].arg) = 2 /\ Len(update_calls) = 2

(***************************************************************************)
(* has_conflict_entries, under ScanSpec.                                   *)
(***************************************************************************)

\* C33: conflict detection returns true when some line of the status text
\* begins with DD, AU, UD, UA, DU, AA or UU and false otherwise: for lines
\* with other codes, for lines of fewer than two characters and for the
\* empty text it reports no conflict and does not abort.
C33_ConflictIffUnmergedPrefix ==
    pc = "scanned" =>
        result = [tag |-> "Bool", val |-> HasConflictLine(status_output)]

(***************************************************************************)
(* Ids of the history records, under HistorySpec.                          *)
(***************************************************************************)

C35_IdsDistinct ==
    \A i, j \in DOMAIN records : i # j => records[i].id # records[j].id

(***************************************************************************)
(* The repository table of the in-memory backend, under GitSpec.           *)
(***************************************************************************)

\* C36: the commit log of a repository of the in-memory backend only
\* grows at its end: every operation leaves the records it found, in their
\* order and unchanged, at the front of the log, and the n-th record of a
\* log has the hash "commit" followed by n.
C36_CommitLogAppendOnly ==
    /\ [](\A path \in DOMAIN repos : \A n \in DOMAIN repos[path].commits :
             repos[path].commits[n].hash = <<"commit">> \o Digits(n))
    /\ [][ \A path \in DOMAIN repos :
             /\ path \in DOMAIN repos'
             /\ IsPrefix(repos[path].commits, repos'[path].commits) ]_vars

\* A repository with two commits went through a later operation that
\* changed a file.
C36_Witness ==
    /\ git_op.op = "modify_file"
    /\ git_op.result = Ok
    /\ Len(repos[git_op.path].commits) = 2
    /\ repos[git_op.path].commits[1].message # repos[git_op.path].commits[2].message

\* The operations of the in-memory backend that can fail.
FallibleOps == { "init", "add_all", "commit", "modify_file" }

\* C37: on the in-memory backend an init, add_all, commit or modify_file
\* that returns an error leaves the repository of its path as the call
\* found it: the same files in the same states, the same commit log and
\* the same initialized flag.
C37_FailedOperationChangesNothing ==
    [][ (git_op'.op \in FallibleOps /\ git_op'.result.tag = "Err") =>
          LET before == Found(git_op'.path)
              after == repos'[git_op'.path]
          IN /\ after.files = before.files
             /\ after.commits = before.commits
             /\ after.initialized = before.initialized ]_vars

\* A commit failed on an initialized repository that has a commit, a
\* committed file and an untracked one, nothing being staged.
C37_Witness ==
    /\ git_op.op = "commit"
    /\ git_op.result.tag = "Err"
    /\ repos[git_op.path].initialized
    /\ repos[git_op.path].commits # <<>>
    /\ FilesIn(repos[git_op.path], { "Untracked" }) # {}
    /\ FilesIn(repos[git_op.path], { "Committed" }) # {}

\* The operations of the in-memory backend that only answer.
QueryOps == { "status", "log", "is_clean" }

\* C38: status, log and is_clean of the in-memory backend leave the table
\* of repositories as it was: the same paths, each with the same
\* repository, so a path the table did not hold is not held after them.
C38_QueriesLeaveTable ==
    [][ git_op'.op \in QueryOps => repos' = repos ]_vars

(***************************************************************************)
(* The in-memory backend shared by two threads, under ThreadSpec.          *)
(***************************************************************************)

\* Every thread is outside a call.
Quiet == \A t \in Threads : threads[t].at = "idle"

\* How many calls of the two threads returned Ok, by the counter named.
InitsOk == threads[1].inits + threads[2].inits

CommitsOk == threads[1].commits + threads[2].commits

\* C39: when the two threads have returned from their calls on the one
\* path, the repository holds what the successful calls did: an entry for
\* every file an add_file_to_mock returned Ok for, one commit record for
\* every commit that returned Ok, and the initialized flag when an init
\* returned Ok; and at most one init returned Ok.
C39_SuccessfulCallsReflected ==
    Quiet =>
        LET repo == Found(SharedPath)
        IN /\ \A t \in Threads : threads[t].added \subseteq DOMAIN repo.files
           /\ Len(repo.commits) = CommitsOk
           /\ InitsOk >= 1 => repo.initialized
           /\ InitsOk <= 1

====
